---- MODULE Spec2Model ----
(***************************************************************************)
(* The chat streaming pipeline of src/main/lib/trpc/routers/claude.ts:     *)
(* the `chat` subscription (one asynchronous body per subscription, the    *)
(* teardown returned to observable()), the `cancel` and                    *)
(* `respondToolApproval` mutations, the session registry activeSessions,   *)
(* the approval gate pendingToolApprovals with its 60 s timers, and the    *)
(* sub_chats row the body reads and writes.                                *)
(*                                                                         *)
(* Spec explores the subscription body and its persistence with the gate   *)
(* idle; ControlSpec explores workspace validation, the registry and the   *)
(* gate with fewer SDK messages; AskSpec follows one subscription whose    *)
(* question waits at the gate while the stream goes on; LiveSpec is one    *)
(* subscription with the progress the event loop guarantees to the body's  *)
(* own continuations, GateLiveSpec the same for the timers of the gate;    *)
(* ErrorSpec is one subscription whose SDK fails; ToolSpec one whose SDK   *)
(* asks for the use of tools; GlobSpec one whose SDK yields the messages   *)
(* of a reply with a search, in their order. MentionSpec applies           *)
(* parseMentions to a prompt.                                              *)
(*                                                                         *)
(* ClientSpec explores the stream adapter of the renderer,                 *)
(* src/renderer/features/agents/lib/ipc-chat-transport.ts: two adapters,   *)
(* the events of their subscriptions and of their abort signals in any     *)
(* order, and the map of the pending questions they share.                 *)
(*                                                                         *)
(* The preparation of the query (the symlink setup, the MCP configuration  *)
(* and the filter of the MCP servers), which these specifications take as  *)
(* the one step StartStream, is explored by CacheSpec and SymlinkSpec      *)
(* together with the caches of the module and the MCP status file; the     *)
(* warm-up of the status cache at the start of the application is left     *)
(* aside.                                                                  *)
(*                                                                         *)
(* JavaScript runs one callback at a time, so an action is the code that   *)
(* runs between two awaits of the body; actions of different subscriptions *)
(* interleave only at the awaits.                                          *)
(*                                                                         *)
(* Two collaborators are outside the repository and are modelled by what   *)
(* they deliver:                                                           *)
(*  - the agent SDK is an environment that yields a message, ends the      *)
(*    stream or throws; a message carries the chunks the transformer       *)
(*    derives from it (the transformer is imported from "../../claude");   *)
(*  - observable() of @trpc/server: emit.complete() marks the observer     *)
(*    done and runs the teardown returned by the subscribe function once,  *)
(*    unless the client's unsubscribe already ran it.                      *)
(***************************************************************************)
EXTENDS Integers, Sequences, FiniteSets, TLC

\* ------------------------------------------------------------------ bounds

\* chat subscriptions opened in one behaviour
MaxSubs == 2

\* SDK messages yielded in one behaviour, times the subscriptions opened
MaxLoad == 3

\* emit.next calls of one handler run (two transformer chunks and a finish)
MaxEmits == 3

Subs == 1..MaxSubs

SubChatIds == {"c1"}

\* the sub-chats of the gate and registry exploration
GateSubChatIds == {"c1", "c2"}

\* options.toolUseID of the SDK's canUseTool calls
ToolUseIds == {"u1", "u2"}

\* a prompt is its text, a sequence of characters
Prompts == {<<"p">>, <<"q">>}

Modes == {"plan", "agent"}

\* streamId: null / no entry in activeSessions
Null == 0

\* ------------------------------------------------------------------ chunks

\* A chunk of the UI protocol. src tells the transformer's chunks ("sdk")
\* from the chunks the subscription body emits itself ("orch").
Chunk(type, delta, toolCallId, toolName, sessionId, src) ==
  [type |-> type, delta |-> delta, toolCallId |-> toolCallId,
   toolName |-> toolName, sessionId |-> sessionId, src |-> src]

TextDelta(d) == Chunk("text-delta", d, "", "", "", "sdk")

TextEnd == Chunk("text-end", <<>>, "", "", "", "sdk")

ToolInput(id, name) == Chunk("tool-input-available", <<>>, id, name, "", "sdk")

ToolOutput(id) == Chunk("tool-output-available", <<>>, id, "", "", "sdk")

MessageMetadata(sid) == Chunk("message-metadata", <<>>, "", "", sid, "sdk")

SdkFinish == Chunk("finish", <<>>, "", "", "", "sdk")

\* chunks emitted by the subscription body
FinishChunk == Chunk("finish", <<>>, "", "", "", "orch")

ErrorChunk == Chunk("error", <<>>, "", "", "", "orch")

AuthErrorChunk == Chunk("auth-error", <<>>, "", "", "", "orch")

\* the chunks of canUseTool for AskUserQuestion, toolUseId in toolCallId
AskUserQuestion(u) == Chunk("ask-user-question", <<>>, u, "", "", "orch")

AskUserQuestionTimeout(u) == Chunk("ask-user-question-timeout", <<>>, u, "", "", "orch")

AskUserQuestionResult(u) == Chunk("ask-user-question-result", <<>>, u, "", "", "orch")

\* An SDK message: error is `msg.type === "error" || msg.error` (auth tells
\* the authentication category), session_id is msg.session_id ("" when the
\* message has none), chunks is what transform(msg) yields for it.
SdkMsg(error, auth, sid, chunks) ==
  [error |-> error, auth |-> auth, session_id |-> sid, chunks |-> chunks]

\* The messages the SDK environment draws from.
SdkMessages ==
  { SdkMsg(FALSE, FALSE, "s1", <<TextDelta(<<"a">>)>>),
    SdkMsg(FALSE, FALSE, "", <<TextDelta(<<" ">>), TextEnd>>),
    SdkMsg(FALSE, FALSE, "", <<TextEnd, ToolInput("t1", "ExitPlanMode")>>),
    SdkMsg(FALSE, FALSE, "", <<ToolOutput("t1"), TextDelta(<<"a">>)>>),
    SdkMsg(TRUE, FALSE, "", <<>>),
    SdkMsg(FALSE, FALSE, "", <<MessageMetadata("s2"), SdkFinish>>) }

\* ------------------------------------------------------------------ process caches

\* the clock Date.now() reads, in ticks; it starts at 1 because
\* diskCacheLastLoadTime = 0 means "never loaded"
MaxTime == 3

\* symlink setups of one cache key after which no further preparation of
\* the key begins
MaxSetups == 2

\* MCP_STATUS_TTL (5 minutes) in ticks
MCP_STATUS_TTL == 2

\* project paths (input.projectPath || input.cwd)
Projects == {"/p1", "/p2"}

\* names of MCP servers
Servers == {"A", "B", "C", "D"}

\* the keys of symlinksCreated: sub-chat ids, and the chat id in offline mode
CacheKeys == GateSubChatIds \cup {"chat1"}

\* mcpServers of a project in ~/.claude.json
Configured(project) == IF project = "/p1" THEN {"A", "B", "C", "D"} ELSE {"A", "D"}

\* the mcp_servers of an init message of the SDK: server -> status, "" for
\* a server the message does not list
McpInitMessages ==
  { [srv \in Servers |-> CASE srv = "A" -> "failed" [] srv = "B" -> "needs-auth"
                           [] srv = "C" -> "connected" [] OTHER -> ""],
    [srv \in Servers |-> CASE srv = "A" -> "connected" [] srv = "D" -> "failed"
                           [] OTHER -> ""],
    [srv \in Servers |-> ""] }

VARIABLES
  cachedClaudeQuery,     \* the memoized sdk.query is not null
  symlinksCreated,       \* the set of cache keys
  mcpConfigCache,        \* the map holds the entry of ~/.claude.json
  mcpServerStatusCache,  \* project -> [has, servers: name -> [status, observedAt]]
  diskCacheLastLoadTime,
  disk,                  \* the file at MCP_CACHE_PATH, and what is at MCP_CACHE_PATH + ".tmp"
  now,                   \* Date.now()
  prep,                  \* per subscription: the preparation of its query
  setups                 \* history: cache key -> symlink setups begun in this process

cacheVars ==
  <<cachedClaudeQuery, symlinksCreated, mcpConfigCache, mcpServerStatusCache,
    diskCacheLastLoadTime, disk, now, prep, setups>>

\* a name the status map does not hold; observedAt is history: the time the
\* SDK reported the status
NoStatus == [status |-> "", observedAt |-> 0]

\* mcpServerStatusCache.has(project) is false
NoStatusMap == [has |-> FALSE, servers |-> [srv \in Servers |-> NoStatus]]

\* a name the file does not hold
NoCached == [status |-> "", cachedAt |-> 0, observedAt |-> 0]

NoDiskEntry == [has |-> FALSE, servers |-> [srv \in Servers |-> NoCached]]

\* a path that does not exist
NoFile == [state |-> "absent", entries |-> [pr \in Projects |-> NoDiskEntry], mtime |-> 0]

\* an optional Record<string, any> of servers: undefined, or the names
Undefined == [defined |-> FALSE, names |-> {}]

Defined(names) == [defined |-> TRUE, names |-> names]

PrepInit ==
  [pc |-> "idle", cacheKey |-> "", lookupPath |-> "", isUsingOllama |-> FALSE,
   mcpServersForSdk |-> Undefined, mcpServersFiltered |-> Undefined]

CachesInit ==
  /\ cachedClaudeQuery = FALSE
  /\ symlinksCreated = {}
  /\ mcpConfigCache = FALSE
  /\ mcpServerStatusCache = [pr \in Projects |-> NoStatusMap]
  /\ diskCacheLastLoadTime = 0
  /\ disk = [file |-> NoFile, tmp |-> "absent"]
  /\ now = 1
  /\ prep = [s \in Subs |-> PrepInit]
  /\ setups = [k \in CacheKeys |-> 0]

\* ------------------------------------------------------------------ state

VARIABLES
  db,              \* sub_chats rows: id -> [messages, sessionId, streamId]
  activeSessions,  \* the registry: id -> the subscription whose controller is registered
  sub,             \* per subscription: the closure state of one chat() call
  yielded,         \* SDK messages yielded so far (bounds the behaviour)
  pendingToolApprovals,  \* the gate: toolUseId -> [subChatId], NoEntry if absent
  approvals,       \* per toolUseId: the promise and the timer canUseTool created
  ret,             \* what the step returned to its caller, if it was a mutation
  client           \* the renderer: the stream adapters and the pending questions

vars ==
  <<db, activeSessions, sub, yielded, pendingToolApprovals, approvals, ret,
    cachedClaudeQuery, symlinksCreated, mcpConfigCache, mcpServerStatusCache,
    diskCacheLastLoadTime, disk, now, prep, setups, client>>

\* ------------------------------------------------------------------ client state

\* events the adapters handle in a behaviour of ClientSpec
MaxEvents == 4

\* the IPCChatTransport objects of the renderer, one for each sub-chat
Adapters == {1, 2}

\* this.config.subChatId
SubChatOf(a) == IF a = 1 THEN "c1" ELSE "c2"

\* pendingUserQuestionsAtom has no entry for a sub-chat
NoQuestion == ""

\* One sendMessages call: the flags of its closure, the state of the
\* ReadableStream behind its controller ("closing": close() was called with
\* chunks still queued), the chunks enqueued, the subscription and the abort
\* listener.
AdapterInit ==
  [isStreamClosed |-> FALSE, isStreamErrored |-> FALSE, state |-> "readable",
   enqueued |-> <<>>, unsubscribed |-> FALSE, aborted |-> FALSE]

\* cancelled: the cancel requests sent, for each sub-chat id
ClientInit ==
  [adapter |-> [a \in Adapters |-> AdapterInit],
   pendingUserQuestions |-> [id \in GateSubChatIds |-> NoQuestion],
   cancelled |-> [id \in GateSubChatIds |-> 0],
   events |-> 0]

\* the promise of one canUseTool call and its setTimeout; resolves counts the
\* calls of the promise's resolve (history)
ApprovalInit ==
  [state |-> "none", s |-> Null, timer |-> "none",
   decision |-> [approved |-> FALSE, message |-> ""], resolves |-> 0]

\* pendingToolApprovals has no entry for a toolUseId
NoEntry == [subChatId |-> ""]

NoReturn == [op |-> "", ok |-> FALSE]

SubInit ==
  [pc |-> "idle", subChatId |-> "", prompt |-> <<>>, mode |-> "agent",
   aborted |-> FALSE, isObservableActive |-> TRUE, nextOk |-> 0,
   unsubscribed |-> FALSE, completed |-> FALSE,
   messagesToSave |-> <<>>, parts |-> <<>>, currentText |-> <<>>,
   metadata |-> [sessionId |-> ""], currentSessionId |-> "",
   messageCount |-> 0, planCompleted |-> FALSE, exitPlanModeToolCallId |-> "",
   delivered |-> <<>>, reason |-> "", errorCategory |-> "", fsProject |-> "",
   \* history: the transformer's chunks for the messages yielded, the
   \* assistant messages written, emit.next has thrown; fsProject is what
   \* the database and the disk held for the project path when the
   \* validation of the working directory failed
   transformed |-> <<>>, saves |-> 0, nextThrew |-> FALSE]

Init ==
  /\ db = [id \in GateSubChatIds |-> [messages |-> <<>>, sessionId |-> "", streamId |-> Null]]
  /\ activeSessions = [id \in GateSubChatIds |-> Null]
  /\ sub = [s \in Subs |-> SubInit]
  /\ yielded = 0
  /\ pendingToolApprovals = [u \in ToolUseIds |-> NoEntry]
  /\ approvals = [u \in ToolUseIds |-> ApprovalInit]
  /\ ret = NoReturn
  /\ CachesInit
  /\ client = ClientInit

\* ------------------------------------------------------------------ helpers

\* String.prototype.trim() leaves something: some character is not a blank
NonBlank(text) == \E i \in 1..Len(text) : text[i] # " "

Part(kind, text, toolCallId, toolName, state) ==
  [kind |-> kind, text |-> text, toolCallId |-> toolCallId,
   toolName |-> toolName, state |-> state]

TextPart(text) == Part("text", text, "", "", "")

Message(id, role, parts, metadata) ==
  [id |-> id, role |-> role, parts |-> parts, metadata |-> metadata]

\* one closure, the row table, the registry, the gate (p) and the promises
\* and timers of its entries (q), threaded through a handler
World(r, d, a, p, q) == [r |-> r, d |-> d, a |-> a, p |-> p, q |-> q]

\* drizzle's set() skips a column whose value is undefined
SetSessionId(old, new) == IF new = "" THEN old ELSE new

\* ------------------------------------------------------------------ emit

\* r.nextOk: the calls of emit.next that still return in this run of the
\* handler; the call after them throws (the subscriber is gone).
SafeEmitOk(r) == r.isObservableActive /\ ~r.aborted /\ r.nextOk > 0

SafeEmit(r, chunk) ==
  IF ~r.isObservableActive THEN r
  ELSE IF r.aborted THEN r
  ELSE IF r.nextOk = 0
    THEN [r EXCEPT !.isObservableActive = FALSE, !.nextThrew = TRUE]
  ELSE [r EXCEPT !.delivered = Append(@, chunk), !.nextOk = @ - 1]

EmitError(r) == SafeEmit(r, ErrorChunk)

\* the resolve of the promise canUseTool awaits: it settles the promise
\* only the first time it is called
PromiseResolve(q, u, d) ==
  [q EXCEPT ![u].state = IF @ = "waiting" THEN "resolved" ELSE @,
            ![u].decision = IF q[u].state = "waiting" THEN d ELSE @,
            ![u].resolves = @ + 1]

\* Resolve without clearTimeout
ResolveKeepsTimer(q, u, d) == PromiseResolve(q, u, d)

\* the resolve of a gate entry: clearTimeout(timeoutId), then resolve(d)
Resolve(q, u, d) ==
  PromiseResolve([q EXCEPT ![u].timer = IF @ = "armed" THEN "cleared" ELSE @], u, d)

\* clearPendingApprovals without the test of the owner: every entry is swept
ClearPendingApprovalsOfAll(w, message, subChatId) ==
  LET hit == {u \in ToolUseIds : w.p[u] # NoEntry}
  IN [w EXCEPT !.p = [u \in ToolUseIds |-> NoEntry],
               !.q = [u \in ToolUseIds |->
                        IF u \in hit
                          THEN Resolve(w.q, u, [approved |-> FALSE, message |-> message])[u]
                          ELSE w.q[u]]]

\* clearPendingApprovals(message, subChatId); subChatId "" is the call
\* without a subChatId
ClearPendingApprovals(w, message, subChatId) ==
  LET hit == {u \in ToolUseIds :
                /\ w.p[u] # NoEntry
                /\ ~(subChatId # "" /\ w.p[u].subChatId # subChatId)}
  IN [w EXCEPT !.p = [u \in ToolUseIds |-> IF u \in hit THEN NoEntry ELSE w.p[u]],
               !.q = [u \in ToolUseIds |->
                        IF u \in hit
                          THEN Resolve(w.q, u, [approved |-> FALSE, message |-> message])[u]
                          ELSE w.q[u]]]

\* Cleanup without the sweep of the gate
CleanupKeepsGate(w) ==
  LET id == w.r.subChatId
  IN [r |-> [w.r EXCEPT !.isObservableActive = FALSE, !.aborted = TRUE,
                        !.unsubscribed = TRUE],
      a |-> [w.a EXCEPT ![id] = Null],
      d |-> [w.d EXCEPT ![id].streamId = Null,
                        ![id].sessionId = SetSessionId(@, w.r.currentSessionId)],
      p |-> w.p,
      q |-> w.q]

\* The teardown returned to observable(): "Cleanup on unsubscribe".
Cleanup(w) ==
  LET id == w.r.subChatId
      w1 == ClearPendingApprovals(w, "Session ended.", id)
  IN [r |-> [w.r EXCEPT !.isObservableActive = FALSE, !.aborted = TRUE,
                        !.unsubscribed = TRUE],
      a |-> [w.a EXCEPT ![id] = Null],
      d |-> [w.d EXCEPT ![id].streamId = Null,
                        ![id].sessionId = SetSessionId(@, w.r.currentSessionId)],
      p |-> w1.p,
      q |-> w1.q]

\* emit.complete(): observable() marks the observer done and unsubscribes,
\* which runs the teardown unless it already ran.
SafeComplete(w) ==
  IF w.r.completed THEN w
  ELSE LET w1 == [w EXCEPT !.r.completed = TRUE]
       IN IF w1.r.unsubscribed THEN w1 ELSE Cleanup(w1)

\* `finally { activeSessions.delete(input.subChatId) }` of the async body
Finally(w) == [w EXCEPT !.a[w.r.subChatId] = Null, !.r.pc = "done"]

\* emitError / error chunk already emitted: finish, complete, return
FinishAndComplete(w) ==
  SafeComplete([w EXCEPT !.r = SafeEmit(w.r, FinishChunk)])

\* `[SD] M:END ... reason=`: the path on which the body ends
End(w, reason) == [w EXCEPT !.r.reason = reason]

Commit(s, w) ==
  /\ sub' = [sub EXCEPT ![s] = [w.r EXCEPT !.nextOk = 0]]
  /\ db' = w.d
  /\ activeSessions' = w.a
  /\ pendingToolApprovals' = w.p
  /\ approvals' = w.q

\* ------------------------------------------------------------------ accumulation

\* FindToolPart that finds no part
FindToolPartNone(parts, toolCallId) == 0

\* parts.find(...): the index of the first part that satisfies the test, 0 if none
FindToolPart(parts, toolCallId) ==
  LET hits == {i \in 1..Len(parts) :
                 parts[i].kind = "tool" /\ parts[i].toolCallId = toolCallId}
  IN IF hits = {} THEN 0 ELSE CHOOSE i \in hits : \A j \in hits : i <= j

\* Accumulate whose plan completion does not abort the session
AccumulatePlanNoAbort(r, chunk) ==
  CASE chunk.type = "text-delta" ->
         [r EXCEPT !.currentText = @ \o chunk.delta]
    [] chunk.type = "text-end" ->
         IF NonBlank(r.currentText)
           THEN [r EXCEPT !.parts = Append(@, TextPart(r.currentText)),
                          !.currentText = <<>>]
           ELSE r
    [] chunk.type = "tool-input-available" ->
         [r EXCEPT !.exitPlanModeToolCallId =
                      IF r.mode = "plan" /\ chunk.toolName = "ExitPlanMode"
                        THEN chunk.toolCallId ELSE @,
                   !.parts = Append(@, Part("tool", <<>>, chunk.toolCallId,
                                            chunk.toolName, "call"))]
    [] chunk.type = "tool-output-available" ->
         LET i == FindToolPart(r.parts, chunk.toolCallId)
             r1 == IF i = 0 THEN r ELSE [r EXCEPT !.parts[i].state = "result"]
         IN IF /\ r.mode = "plan"
               /\ r.exitPlanModeToolCallId # ""
               /\ chunk.toolCallId = r.exitPlanModeToolCallId
              THEN SafeEmit([r1 EXCEPT !.planCompleted = TRUE], FinishChunk)
              ELSE r1
    [] chunk.type = "message-metadata" ->
         [r EXCEPT !.metadata.sessionId = SetSessionId(@, chunk.sessionId)]
    [] OTHER -> r

\* the switch on chunk.type of the chunk loop
Accumulate(r, chunk) ==
  CASE chunk.type = "text-delta" ->
         [r EXCEPT !.currentText = @ \o chunk.delta]
    [] chunk.type = "text-end" ->
         IF NonBlank(r.currentText)
           THEN [r EXCEPT !.parts = Append(@, TextPart(r.currentText)),
                          !.currentText = <<>>]
           ELSE r
    [] chunk.type = "tool-input-available" ->
         [r EXCEPT !.exitPlanModeToolCallId =
                      IF r.mode = "plan" /\ chunk.toolName = "ExitPlanMode"
                        THEN chunk.toolCallId ELSE @,
                   !.parts = Append(@, Part("tool", <<>>, chunk.toolCallId,
                                            chunk.toolName, "call"))]
    [] chunk.type = "tool-output-available" ->
         LET i == FindToolPart(r.parts, chunk.toolCallId)
             r1 == IF i = 0 THEN r ELSE [r EXCEPT !.parts[i].state = "result"]
         IN IF /\ r.mode = "plan"
               /\ r.exitPlanModeToolCallId # ""
               /\ chunk.toolCallId = r.exitPlanModeToolCallId
              THEN [SafeEmit([r1 EXCEPT !.planCompleted = TRUE], FinishChunk)
                      EXCEPT !.aborted = TRUE]
              ELSE r1
    [] chunk.type = "message-metadata" ->
         [r EXCEPT !.metadata.sessionId = SetSessionId(@, chunk.sessionId)]
    [] OTHER -> r

RECURSIVE ProcessChunksIgnoresAbort(_, _)
\* ProcessChunks without the abort checks and with safeEmit's result ignored
ProcessChunksIgnoresAbort(r, chunks) ==
  IF chunks = <<>> THEN r
  ELSE ProcessChunksIgnoresAbort(Accumulate(SafeEmit(r, Head(chunks)), Head(chunks)),
                                 Tail(chunks))

RECURSIVE ProcessChunksKeepsTextEnd(_, _)
\* ProcessChunks that accumulates a text-end chunk without emitting it
ProcessChunksKeepsTextEnd(r, chunks) ==
  IF chunks = <<>> THEN r
  ELSE IF r.aborted THEN r
  ELSE IF ~SafeEmitOk(r) THEN SafeEmit(r, Head(chunks))
  ELSE LET r0 == IF Head(chunks).type = "text-end" THEN r
                 ELSE SafeEmit(r, Head(chunks))
           r1 == Accumulate(r0, Head(chunks))
       IN IF r1.planCompleted \/ r1.aborted THEN r1
          ELSE ProcessChunksKeepsTextEnd(r1, Tail(chunks))

\* for (const chunk of transform(msg)) { ... }
RECURSIVE ProcessChunks(_, _)
ProcessChunks(r, chunks) ==
  IF chunks = <<>> THEN r
  ELSE IF r.aborted THEN r
  ELSE IF ~SafeEmitOk(r) THEN SafeEmit(r, Head(chunks))
  ELSE LET r1 == Accumulate(SafeEmit(r, Head(chunks)), Head(chunks))
       IN IF r1.planCompleted \/ r1.aborted THEN r1
          ELSE ProcessChunks(r1, Tail(chunks))

\* ------------------------------------------------------------------ persistence

\* "Flush any remaining text": pushed onto parts, the buffer is left as it is
Flush(r) ==
  IF NonBlank(r.currentText)
    THEN [r EXCEPT !.parts = Append(@, TextPart(r.currentText))]
    ELSE r

AssistantMessage(s, r) == Message(s, "assistant", r.parts, r.metadata)

UserMessage(s, r) == Message(s, "user", <<TextPart(r.prompt)>>, [sessionId |-> ""])

\* the row update that appends the assistant message
SaveAssistant(s, w) ==
  LET id == w.r.subChatId IN
  [w EXCEPT !.d[id] = [messages |-> Append(w.r.messagesToSave, AssistantMessage(s, w.r)),
                       sessionId |-> SetSessionId(w.d[id].sessionId, w.r.metadata.sessionId),
                       streamId |-> Null],
            !.r.saves = @ + 1]

\* step 7, "Save final messages to DB"
FinalSave(s, w) ==
  LET w1 == [w EXCEPT !.r = Flush(w.r)]
      id == w.r.subChatId
  IN IF Len(w1.r.parts) > 0
       THEN SaveAssistant(s, w1)
       ELSE [w1 EXCEPT !.d[id].sessionId = SetSessionId(@, w.r.metadata.sessionId),
                       !.d[id].streamId = Null]

\* CatchSave without the flush of the buffered text
CatchSaveNoFlush(s, w) ==
  IF Len(w.r.parts) > 0 THEN SaveAssistant(s, w) ELSE w

\* the save of catch (streamError): "ALWAYS save accumulated parts before returning"
CatchSave(s, w) ==
  LET w1 == [w EXCEPT !.r = Flush(w.r)]
  IN IF Len(w1.r.parts) > 0 THEN SaveAssistant(s, w1) ELSE w1

\* IsDuplicate without the comparison of the text
IsDuplicateIgnoresText(existingMessages, prompt) ==
  /\ Len(existingMessages) > 0
  /\ existingMessages[Len(existingMessages)].role = "user"

\* "1. Get existing messages from DB" and "2. Create user message and save
\* BEFORE streaming (skip if duplicate)"
IsDuplicate(existingMessages, prompt) ==
  /\ Len(existingMessages) > 0
  /\ existingMessages[Len(existingMessages)].role = "user"
  /\ existingMessages[Len(existingMessages)].parts[1].text = prompt

SaveUser(s, w) ==
  LET id == w.r.subChatId
      existingMessages == w.d[id].messages
  IN IF IsDuplicate(existingMessages, w.r.prompt)
       THEN [w EXCEPT !.r.messagesToSave = existingMessages]
       ELSE [w EXCEPT !.r.messagesToSave = Append(existingMessages, UserMessage(s, w.r)),
                      !.d[id].messages = Append(existingMessages, UserMessage(s, w.r)),
                      !.d[id].streamId = s]

\* ------------------------------------------------------------------ the subscription body

\* the closure of s at the start of a handler run in which n calls of
\* emit.next return
W(s, n) ==
  World([sub[s] EXCEPT !.nextOk = n], db, activeSessions, pendingToolApprovals, approvals)

Opened == Cardinality({s \in Subs : sub[s].pc # "idle"})

\* chat.subscription: the synchronous start of observable()'s subscribe
\* function, up to the first await (fs.stat of the working directory).
\* Subscriptions are numbered in the order they are opened.
Subscribe(s, id, prompt, mode) ==
  /\ sub[s].pc = "idle"
  /\ \A t \in Subs : t < s => sub[t].pc # "idle"
  /\ yielded * (Opened + 1) <= MaxLoad
  /\ sub' = [sub EXCEPT ![s] = [@ EXCEPT !.pc = "validating", !.subChatId = id,
                                         !.prompt = prompt, !.mode = mode]]
  /\ activeSessions' = [activeSessions EXCEPT ![id] = s]
  /\ ret' = NoReturn
  /\ UNCHANGED <<cacheVars, client>>
  /\ UNCHANGED <<db, yielded, pendingToolApprovals, approvals>>

\* ValidateCwdFail after the save of the user message
ValidateCwdFailAfterSave(s, n) ==
  /\ sub[s].pc = "validating"
  /\ Commit(s, [FinishAndComplete(End([SaveUser(s, W(s, n)) EXCEPT !.r = EmitError(@)],
                                      "invalid_cwd"))
                  EXCEPT !.r.pc = "done", !.r.fsProject = "none"])
  /\ ret' = NoReturn
  /\ UNCHANGED <<cacheVars, client>>
  /\ UNCHANGED yielded

\* "Step 1: Validating CWD" failed: fs.stat of the working directory threw
\* and the database holds no project path for the chat ("Workspace path
\* error"). The return is outside the try/finally of the body.
ValidateCwdFail(s, n) ==
  /\ sub[s].pc = "validating"
  /\ Commit(s, [FinishAndComplete(End([W(s, n) EXCEPT !.r = EmitError(@)], "invalid_cwd"))
                  EXCEPT !.r.pc = "done", !.r.fsProject = "none"])
  /\ ret' = NoReturn
  /\ UNCHANGED <<cacheVars, client>>
  /\ UNCHANGED yielded

\* the project path the database and the disk hold for the chat
ProjectStates == {"none", "missing", "exists"}

\* fs.stat succeeded and !cwdStat.isDirectory(): "Invalid workspace path",
\* finish, complete, return; project is what a lookup would have found
ValidateCwdNotDirectory(s, project, n) ==
  /\ sub[s].pc = "validating"
  /\ Commit(s, [FinishAndComplete(End([W(s, n) EXCEPT !.r = EmitError(@)], "not_directory"))
                  EXCEPT !.r.pc = "done", !.r.fsProject = project])
  /\ ret' = NoReturn
  /\ UNCHANGED <<cacheVars, client>>
  /\ UNCHANGED yielded

\* fs.stat threw and the chat's project has a path: await fs.stat(project.path)
ValidateCwdFallback(s) ==
  /\ sub[s].pc = "validating"
  /\ sub' = [sub EXCEPT ![s].pc = "fallback"]
  /\ ret' = NoReturn
  /\ UNCHANGED <<cacheVars, client>>
  /\ UNCHANGED <<db, activeSessions, yielded, pendingToolApprovals, approvals>>

\* the project path exists: it replaces input.cwd and the body goes on as
\* after a valid working directory
FallbackOk(s) ==
  /\ sub[s].pc = "fallback"
  /\ Commit(s, [SaveUser(s, W(s, 0)) EXCEPT !.r.pc = "preparing"])
  /\ ret' = NoReturn
  /\ UNCHANGED <<cacheVars, client>>
  /\ UNCHANGED yielded

\* the project path is inaccessible: "Workspace path error"
FallbackFail(s, n) ==
  /\ sub[s].pc = "fallback"
  /\ Commit(s, [FinishAndComplete(End([W(s, n) EXCEPT !.r = EmitError(@)], "invalid_cwd"))
                  EXCEPT !.r.pc = "done", !.r.fsProject = "missing"])
  /\ ret' = NoReturn
  /\ UNCHANGED <<cacheVars, client>>
  /\ UNCHANGED yielded

\* The working directory (or the project path) is usable: "Step 2", read
\* the row, save the user message, then await checkOfflineFallback.
ValidateCwdOk(s) ==
  /\ sub[s].pc = "validating"
  /\ Commit(s, [SaveUser(s, W(s, 0)) EXCEPT !.r.pc = "preparing"])
  /\ ret' = NoReturn
  /\ UNCHANGED <<cacheVars, client>>
  /\ UNCHANGED yielded

\* A step between the user save and the stream loop failed: offline mode
\* unavailable, SDK load failure, binary missing, query creation failure, or
\* an exception caught by the outer catch ("Unexpected error"). Each emits
\* an error, a finish, completes and returns through the finally.
PrepareFail(s, n) ==
  /\ sub[s].pc = "preparing"
  /\ Commit(s, Finally(FinishAndComplete(
                 End([W(s, n) EXCEPT !.r = EmitError(@)], "prepare_error"))))
  /\ ret' = NoReturn
  /\ UNCHANGED <<cacheVars, client>>
  /\ UNCHANGED yielded

\* "5. Run Claude SDK": the query stream is created
StartStream(s) ==
  /\ sub[s].pc = "preparing"
  /\ sub' = [sub EXCEPT ![s].pc = "streaming"]
  /\ ret' = NoReturn
  /\ UNCHANGED <<cacheVars, client>>
  /\ UNCHANGED <<db, activeSessions, yielded, pendingToolApprovals, approvals>>

\* what follows the stream loop: "6. Check if we got any response", then
\* step 7. stash: createRollbackStash is awaited before safeComplete.
AfterLoop(s, w, stash) ==
  IF w.r.messageCount = 0 /\ ~w.r.aborted
    THEN Finally(FinishAndComplete(End([w EXCEPT !.r = EmitError(@)], "no_response")))
    ELSE LET w1 == End(FinalSave(s, w), IF w.r.planCompleted THEN "plan_complete" ELSE "ok")
         IN IF stash THEN [w1 EXCEPT !.r.pc = "stashing"]
            ELSE Finally(SafeComplete(w1))

\* "Check for error messages from SDK": the embedded error of a message
EmbeddedError(w, msg) ==
  LET errorCategory == IF msg.auth THEN "AUTH_FAILED_SDK" ELSE "SDK_ERROR"
  IN Finally(FinishAndComplete(End(
       [w EXCEPT !.r = SafeEmit([@ EXCEPT !.errorCategory = errorCategory],
                                IF errorCategory = "AUTH_FAILED_SDK"
                                  THEN AuthErrorChunk ELSE ErrorChunk)],
       "sdk_error")))

\* one iteration of `for await (const msg of stream)`
ProcessMessage(s, w, msg, stash) ==
  IF w.r.aborted THEN AfterLoop(s, w, stash)
  ELSE LET w1 == [w EXCEPT !.r.messageCount = @ + 1] IN
    IF msg.error THEN EmbeddedError(w1, msg)
    ELSE LET r2 == [w1.r EXCEPT
                      !.metadata.sessionId = SetSessionId(@, msg.session_id),
                      !.currentSessionId = SetSessionId(@, msg.session_id)]
             r3 == ProcessChunks(r2, msg.chunks)
             w3 == [w1 EXCEPT !.r = r3]
         IN IF r3.planCompleted \/ ~r3.isObservableActive \/ r3.aborted
              THEN AfterLoop(s, w3, stash)
              ELSE w3

\* the SDK yields a message
SdkYield(s, msg, stash, n) ==
  /\ sub[s].pc = "streaming"
  /\ (yielded + 1) * Opened <= MaxLoad
  /\ yielded' = yielded + 1
  /\ Commit(s, ProcessMessage(s, [W(s, n) EXCEPT !.r.transformed = @ \o msg.chunks],
                               msg, stash))
  /\ ret' = NoReturn
  /\ UNCHANGED <<cacheVars, client>>

\* the SDK stream ends
SdkEnd(s, stash, n) ==
  /\ sub[s].pc = "streaming"
  /\ Commit(s, AfterLoop(s, W(s, n), stash))
  /\ ret' = NoReturn
  /\ UNCHANGED <<cacheVars, client>>
  /\ UNCHANGED yielded

\* CatchBody without its return: the body goes on to step 7
CatchBodyFallsThrough(s, w, stash) ==
  LET w1 == [w EXCEPT !.r = IF ~w.r.aborted THEN SafeEmit(w.r, ErrorChunk) ELSE w.r]
      w2 == FinalSave(s, End(CatchSave(s, w1), "stream_error"))
  IN IF stash THEN [w2 EXCEPT !.r.pc = "stashing"]
     ELSE Finally(SafeComplete(w2))

\* the body of catch (streamError) from the error chunk on
CatchBody(s, w, stash) ==
  LET w1 == [w EXCEPT !.r = IF ~w.r.aborted THEN SafeEmit(w.r, ErrorChunk) ELSE w.r]
      w2 == End(CatchSave(s, w1), "stream_error")
  IN IF stash /\ Len(w2.r.parts) > 0
       THEN [w2 EXCEPT !.r.pc = "catchStashing"]
       ELSE Finally(FinishAndComplete(w2))

\* the texts `err.message?.includes(...)` looks for in a stream error
ErrorMarkers ==
  {"exited with code", "ENOENT", "authentication", "401", "invalid_api_key",
   "rate_limit", "network"}

\* an error message that holds none of the texts
UnknownError == {}

\* "Build detailed error message with category": the category of a stream
\* error, err being the texts its message holds
CategorizeStreamError(err) ==
  IF "exited with code" \in err THEN "PROCESS_CRASH"
  ELSE IF "ENOENT" \in err THEN "EXECUTABLE_NOT_FOUND"
  ELSE IF "authentication" \in err \/ "401" \in err THEN "AUTH_FAILURE"
  ELSE IF "invalid_api_key" \in err THEN "INVALID_API_KEY"
  ELSE IF "rate_limit" \in err THEN "RATE_LIMIT"
  ELSE IF "network" \in err THEN "NETWORK_ERROR"
  ELSE "UNKNOWN"

\* the SDK iterator throws (the subprocess exits, the abort rejects the
\* iterator, ...). packaged: Sentry is imported with an await first.
SdkThrow(s, err, packaged, stash, n) ==
  /\ sub[s].pc = "streaming"
  /\ LET w == [W(s, n) EXCEPT !.r.errorCategory = CategorizeStreamError(err)]
     IN Commit(s, IF packaged THEN [w EXCEPT !.r.pc = "catching"]
                  ELSE CatchBody(s, w, stash))
  /\ ret' = NoReturn
  /\ UNCHANGED <<cacheVars, client>>
  /\ UNCHANGED yielded

\* the import of Sentry resolved
CatchResume(s, stash, n) ==
  /\ sub[s].pc = "catching"
  /\ Commit(s, CatchBody(s, W(s, n), stash))
  /\ ret' = NoReturn
  /\ UNCHANGED <<cacheVars, client>>
  /\ UNCHANGED yielded

\* createRollbackStash resolved
StashDone(s, n) ==
  /\ sub[s].pc \in {"stashing", "catchStashing"}
  /\ Commit(s, IF sub[s].pc = "stashing" THEN Finally(SafeComplete(W(s, n)))
               ELSE Finally(FinishAndComplete(W(s, n))))
  /\ ret' = NoReturn
  /\ UNCHANGED <<cacheVars, client>>
  /\ UNCHANGED yielded

\* ------------------------------------------------------------------ the client and the environment

\* the client unsubscribes: observable() runs the teardown once
Unsubscribe(s) ==
  /\ sub[s].pc # "idle"
  /\ ~sub[s].unsubscribed
  /\ Commit(s, Cleanup(W(s, 0)))
  /\ ret' = NoReturn
  /\ UNCHANGED <<cacheVars, client>>
  /\ UNCHANGED yielded

\* Cancel that aborts every subscription of the sub-chat
CancelAbortsAll(id) ==
  /\ activeSessions[id] # Null
  /\ LET w == ClearPendingApprovals(W(activeSessions[id], 0), "Session cancelled.", id)
     IN /\ pendingToolApprovals' = w.p
        /\ approvals' = w.q
  /\ sub' = [s \in Subs |-> IF sub[s].subChatId = id
                               THEN [sub[s] EXCEPT !.aborted = TRUE] ELSE sub[s]]
  /\ activeSessions' = [activeSessions EXCEPT ![id] = Null]
  /\ ret' = [op |-> "cancel", ok |-> TRUE]
  /\ UNCHANGED <<cacheVars, client>>
  /\ UNCHANGED <<db, yielded>>

\* Cancel without the sweep of the gate
CancelKeepsApprovals(id) ==
  /\ activeSessions[id] # Null
  /\ sub' = [sub EXCEPT ![activeSessions[id]].aborted = TRUE]
  /\ activeSessions' = [activeSessions EXCEPT ![id] = Null]
  /\ ret' = [op |-> "cancel", ok |-> TRUE]
  /\ UNCHANGED <<cacheVars, client>>
  /\ UNCHANGED <<db, yielded, pendingToolApprovals, approvals>>

\* the `cancel` mutation, a controller is registered for the id
Cancel(id) ==
  /\ activeSessions[id] # Null
  /\ LET w == ClearPendingApprovals(W(activeSessions[id], 0), "Session cancelled.", id)
     IN /\ pendingToolApprovals' = w.p
        /\ approvals' = w.q
  /\ sub' = [sub EXCEPT ![activeSessions[id]].aborted = TRUE]
  /\ activeSessions' = [activeSessions EXCEPT ![id] = Null]
  /\ ret' = [op |-> "cancel", ok |-> TRUE]
  /\ UNCHANGED <<cacheVars, client>>
  /\ UNCHANGED <<db, yielded>>

\* CancelNoHandle with the sweep of the gate
CancelNoHandleSweeps(id) ==
  /\ activeSessions[id] = Null
  /\ LET w == ClearPendingApprovals(W(1, 0), "Session cancelled.", id)
     IN /\ pendingToolApprovals' = w.p
        /\ approvals' = w.q
  /\ ret' = [op |-> "cancel", ok |-> FALSE]
  /\ UNCHANGED <<cacheVars, client>>
  /\ UNCHANGED <<db, activeSessions, sub, yielded>>

\* the `cancel` mutation, no controller is registered: { cancelled: false }
CancelNoHandle(id) ==
  /\ activeSessions[id] = Null
  /\ ret' = [op |-> "cancel", ok |-> FALSE]
  /\ UNCHANGED <<cacheVars, client>>
  /\ UNCHANGED <<db, activeSessions, sub, yielded, pendingToolApprovals, approvals>>

\* ------------------------------------------------------------------ the approval gate

\* the SDK may call canUseTool while the query of s exists
QueryAlive(s) == sub[s].pc \in {"streaming", "catching", "stashing", "catchStashing"}

\* a property of toolInput: undefined, or a string (its characters)
NoValue == [kind |-> "undefined", text |-> <<>>]

Str(text) == [kind |-> "string", text |-> text]

\* JavaScript's truthiness of such a value
Truthy(v) == v.kind = "string" /\ v.text # <<>>

\* the tools the SDK asks about, AskUserQuestion aside
ToolNames == {"Bash", "NotebookEdit", "Edit", "Write", "Read"}

\* the values of file and file_path in a tool input
PathValues ==
  { NoValue, Str(<<>>), Str(<<"a", ".", "m", "d">>), Str(<<"a", ".", "M", "D">>),
    Str(<<"a", ".", "t", "s">>), Str(<<"m", "d">>) }

\* the values of `file`, the name offline models give to file_path
FileValues == { NoValue, Str(<<"a", ".", "m", "d">>), Str(<<"a", ".", "t", "s">>) }

PLAN_MODE_BLOCKED_TOOLS == {"Bash", "NotebookEdit"}

\* /\.md$/i.test(filePath)
TestMd(filePath) ==
  /\ Len(filePath) >= 3
  /\ filePath[Len(filePath) - 2] = "."
  /\ filePath[Len(filePath) - 1] \in {"m", "M"}
  /\ filePath[Len(filePath)] \in {"d", "D"}

\* "Fix common parameter mistakes from Ollama models": file -> file_path
\* for Read, Write and Edit
FixToolInput(isUsingOllama, toolName, toolInput) ==
  IF /\ isUsingOllama /\ toolName \in {"Read", "Write", "Edit"}
     /\ Truthy(toolInput.file) /\ ~Truthy(toolInput.file_path)
    THEN [file |-> NoValue, file_path |-> toolInput.file]
    ELSE toolInput

\* the plan-mode checks that deny Bash and NotebookEdit only
PlanModeDeniesBlockedOnly(mode, toolName, toolInput) ==
  mode = "plan" /\ toolName \in PLAN_MODE_BLOCKED_TOOLS

\* `if (input.mode === "plan")`: the call is denied
PlanModeDenies(mode, toolName, toolInput) ==
  /\ mode = "plan"
  /\ IF toolName \in {"Edit", "Write"}
       THEN LET filePath == IF toolInput.file_path.kind = "string"
                              THEN toolInput.file_path.text ELSE <<>>
            IN ~TestMd(filePath)
       ELSE toolName \in PLAN_MODE_BLOCKED_TOOLS

\* canUseTool for a tool other than AskUserQuestion: it returns at once,
\* { behavior: "deny" } or { behavior: "allow", updatedInput: toolInput }
CanUseTool(s, toolName, toolInput, isUsingOllama) ==
  /\ QueryAlive(s)
  /\ LET fixed == FixToolInput(isUsingOllama, toolName, toolInput)
     IN ret' = [op |-> "canUseTool", ok |-> ~PlanModeDenies(sub[s].mode, toolName, fixed),
                s |-> s, toolName |-> toolName, toolInput |-> fixed]
  /\ UNCHANGED <<db, activeSessions, sub, yielded, pendingToolApprovals, approvals>>
  /\ UNCHANGED <<cacheVars, client>>

\* canUseTool for AskUserQuestion up to its await: the question is emitted,
\* the 60 s timer is set and the entry is put in the gate
CanUseToolAsk(s, u, n) ==
  /\ QueryAlive(s)
  /\ approvals[u].state = "none"
  /\ Commit(s, [W(s, n) EXCEPT
                  !.r = SafeEmit(@, AskUserQuestion(u)),
                  !.p[u] = [subChatId |-> sub[s].subChatId],
                  !.q[u] = [ApprovalInit EXCEPT !.state = "waiting", !.s = s,
                                                !.timer = "armed"]])
  /\ ret' = NoReturn
  /\ UNCHANGED <<cacheVars, client>>
  /\ UNCHANGED yielded

\* ApprovalTimeout without pendingToolApprovals.delete
ApprovalTimeoutKeepsEntry(u, n) ==
  /\ approvals[u].timer = "armed"
  /\ LET s == approvals[u].s
         w == W(s, n)
     IN Commit(s, [w EXCEPT
                     !.r = SafeEmit(@, AskUserQuestionTimeout(u)),
                     !.q = PromiseResolve([w.q EXCEPT ![u].timer = "fired"], u,
                                          [approved |-> FALSE, message |-> "Timed out"])])
  /\ ret' = NoReturn
  /\ UNCHANGED <<cacheVars, client>>
  /\ UNCHANGED yielded

\* the callback of setTimeout(..., 60000)
ApprovalTimeout(u, n) ==
  /\ approvals[u].timer = "armed"
  /\ LET s == approvals[u].s
         w == W(s, n)
     IN Commit(s, [w EXCEPT
                     !.p[u] = NoEntry,
                     !.r = SafeEmit(@, AskUserQuestionTimeout(u)),
                     !.q = PromiseResolve([w.q EXCEPT ![u].timer = "fired"], u,
                                          [approved |-> FALSE, message |-> "Timed out"])])
  /\ ret' = NoReturn
  /\ UNCHANGED <<cacheVars, client>>
  /\ UNCHANGED yielded

\* the `respondToolApproval` mutation; message "" is an absent message
RespondToolApproval(u, approved, message) ==
  IF pendingToolApprovals[u] = NoEntry
    THEN /\ ret' = [op |-> "respondToolApproval", ok |-> FALSE]
         /\ UNCHANGED <<cacheVars, client>>
         /\ UNCHANGED <<db, activeSessions, sub, yielded, pendingToolApprovals, approvals>>
    ELSE /\ approvals' = Resolve(approvals, u, [approved |-> approved, message |-> message])
         /\ pendingToolApprovals' = [pendingToolApprovals EXCEPT ![u] = NoEntry]
         /\ ret' = [op |-> "respondToolApproval", ok |-> TRUE]
         /\ UNCHANGED <<cacheVars, client>>
         /\ UNCHANGED <<db, activeSessions, sub, yielded>>

\* parts.find(p => p.toolCallId === toolUseID && p.type === "tool-AskUserQuestion")
FindAskToolPart(parts, u) ==
  LET hits == {i \in 1..Len(parts) :
                 /\ parts[i].kind = "tool" /\ parts[i].toolCallId = u
                 /\ parts[i].toolName = "AskUserQuestion"}
  IN IF hits = {} THEN 0 ELSE CHOOSE i \in hits : \A j \in hits : i <= j

\* canUseTool after its await: the tool part gets its result, the result
\* chunk is emitted, the decision is returned to the SDK
CanUseToolReturn(u, n) ==
  /\ approvals[u].state = "resolved"
  /\ LET s == approvals[u].s
         w == W(s, n)
         i == FindAskToolPart(w.r.parts, u)
         r1 == IF i = 0 THEN w.r ELSE [w.r EXCEPT !.parts[i].state = "result"]
     IN Commit(s, [w EXCEPT !.r = SafeEmit(r1, AskUserQuestionResult(u)),
                            !.q[u].state = "returned"])
  /\ ret' = NoReturn
  /\ UNCHANGED <<cacheVars, client>>
  /\ UNCHANGED yielded

Next ==
  \/ \E s \in Subs, id \in SubChatIds, prompt \in Prompts, mode \in Modes :
       Subscribe(s, id, prompt, mode)
  \/ \E s \in Subs, n \in 0..MaxEmits : ValidateCwdFail(s, n)
  \/ \E s \in Subs : ValidateCwdOk(s)
  \/ \E s \in Subs, n \in 0..MaxEmits : PrepareFail(s, n)
  \/ \E s \in Subs : StartStream(s)
  \/ \E s \in Subs, msg \in SdkMessages, stash \in BOOLEAN, n \in 0..MaxEmits :
       SdkYield(s, msg, stash, n)
  \/ \E s \in Subs, stash \in BOOLEAN, n \in 0..MaxEmits : SdkEnd(s, stash, n)
  \/ \E s \in Subs, packaged \in BOOLEAN, stash \in BOOLEAN, n \in 0..MaxEmits :
       SdkThrow(s, UnknownError, packaged, stash, n)
  \/ \E s \in Subs, stash \in BOOLEAN, n \in 0..MaxEmits : CatchResume(s, stash, n)
  \/ \E s \in Subs, n \in 0..MaxEmits : StashDone(s, n)
  \/ \E s \in Subs : Unsubscribe(s)
  \/ \E id \in SubChatIds : Cancel(id)

Spec == Init /\ [][Next]_vars

\* emit.next calls of a handler run in ControlSpec: the subscriber takes
\* every chunk
ControlEmits == {MaxEmits}

\* the toolUseID the SDK process of a subscription passes to canUseTool
ToolUseIdOf(s) == IF s = 1 THEN "u1" ELSE "u2"

\* ControlSpec: workspace validation, the registry and the gate. The SDK
\* yields no message in it; it ends its stream or throws.
ControlNext ==
  \/ \E s \in Subs, id \in GateSubChatIds : Subscribe(s, id, <<"p">>, "agent")
  \/ \E s \in Subs, n \in ControlEmits : ValidateCwdFail(s, n)
  \/ \E s \in Subs, project \in ProjectStates, n \in ControlEmits :
       ValidateCwdNotDirectory(s, project, n)
  \/ \E s \in Subs : ValidateCwdFallback(s)
  \/ \E s \in Subs : FallbackOk(s)
  \/ \E s \in Subs, n \in ControlEmits : FallbackFail(s, n)
  \/ \E s \in Subs : ValidateCwdOk(s)
  \/ \E s \in Subs, n \in ControlEmits : PrepareFail(s, n)
  \/ \E s \in Subs : StartStream(s)
  \/ \E s \in Subs, n \in ControlEmits : SdkEnd(s, FALSE, n)
  \/ \E s \in Subs, n \in ControlEmits : SdkThrow(s, UnknownError, FALSE, FALSE, n)
  \/ \E s \in Subs : Unsubscribe(s)
  \/ \E id \in GateSubChatIds : Cancel(id)
  \/ \E id \in GateSubChatIds : CancelNoHandle(id)
  \/ \E s \in Subs, n \in ControlEmits : CanUseToolAsk(s, ToolUseIdOf(s), n)
  \/ \E u \in ToolUseIds, n \in ControlEmits : ApprovalTimeout(u, n)
  \/ \E u \in ToolUseIds, approved \in BOOLEAN :
       RespondToolApproval(u, approved, IF approved THEN "" ELSE "no")
  \/ \E u \in ToolUseIds, n \in ControlEmits : CanUseToolReturn(u, n)

ControlSpec == Init /\ [][ControlNext]_vars

\* The messages of AskSpec: the tool calls of a question and of
\* ExitPlanMode, then the output of ExitPlanMode.
AskSdkMessages ==
  { SdkMsg(FALSE, FALSE, "s1",
           <<ToolInput("u1", "AskUserQuestion"), ToolInput("t1", "ExitPlanMode")>>),
    SdkMsg(FALSE, FALSE, "", <<ToolOutput("t1")>>) }

\* AskSpec: one subscription whose SDK asks one question while it streams
AskNext ==
  \/ \E mode \in Modes : Subscribe(1, "c1", <<"p">>, mode)
  \/ ValidateCwdOk(1)
  \/ StartStream(1)
  \/ \E msg \in AskSdkMessages, stash \in BOOLEAN, n \in ControlEmits :
       SdkYield(1, msg, stash, n)
  \/ \E stash \in BOOLEAN, n \in ControlEmits : SdkEnd(1, stash, n)
  \/ \E stash \in BOOLEAN, n \in ControlEmits : SdkThrow(1, UnknownError, FALSE, stash, n)
  \/ \E n \in ControlEmits : StashDone(1, n)
  \/ Unsubscribe(1)
  \/ Cancel("c1")
  \/ \E n \in ControlEmits : CanUseToolAsk(1, "u1", n)
  \/ \E n \in ControlEmits : ApprovalTimeout("u1", n)
  \/ \E approved \in BOOLEAN :
       RespondToolApproval("u1", approved, IF approved THEN "" ELSE "no")
  \/ \E n \in ControlEmits : CanUseToolReturn("u1", n)

AskSpec == Init /\ [][AskNext]_vars

\* The messages of LiveSpec: a text and the tool call of ExitPlanMode, then
\* the output of ExitPlanMode.
LiveSdkMessages ==
  { SdkMsg(FALSE, FALSE, "s1", <<TextDelta(<<"a">>), ToolInput("t1", "ExitPlanMode")>>),
    SdkMsg(FALSE, FALSE, "", <<ToolOutput("t1")>>) }

\* LiveSpec: one subscription from its start to its end
LiveNext ==
  \/ \E mode \in Modes : Subscribe(1, "c1", <<"p">>, mode)
  \/ ValidateCwdOk(1)
  \/ StartStream(1)
  \/ \E msg \in LiveSdkMessages, stash \in BOOLEAN, n \in ControlEmits :
       SdkYield(1, msg, stash, n)
  \/ \E stash \in BOOLEAN, n \in ControlEmits : SdkEnd(1, stash, n)
  \/ \E packaged \in BOOLEAN, stash \in BOOLEAN, n \in ControlEmits :
       SdkThrow(1, UnknownError, packaged, stash, n)
  \/ \E stash \in BOOLEAN, n \in ControlEmits : CatchResume(1, stash, n)
  \/ \E n \in ControlEmits : StashDone(1, n)
  \/ Unsubscribe(1)
  \/ Cancel("c1")

\* The event loop runs every continuation of the body whose awaited promise
\* has settled: the fs.stat of the working directory, the preparation, the
\* import of Sentry and createRollbackStash settle by themselves. Nothing
\* in the repository makes the SDK iterator settle.
LiveSpec ==
  /\ Init
  /\ [][LiveNext]_vars
  /\ WF_vars(ValidateCwdOk(1))
  /\ WF_vars(StartStream(1))
  /\ WF_vars(\E stash \in BOOLEAN, n \in ControlEmits : CatchResume(1, stash, n))
  /\ WF_vars(\E n \in ControlEmits : StashDone(1, n))

\* GateLiveSpec: one subscription and its question, with the progress of
\* the event loop for the gate:
\* an armed timer that is not cleared fires, and the continuation of a
\* canUseTool whose promise has settled runs.
GateLiveNext ==
  \/ \E mode \in Modes : Subscribe(1, "c1", <<"p">>, mode)
  \/ ValidateCwdOk(1)
  \/ StartStream(1)
  \/ \E msg \in AskSdkMessages, n \in ControlEmits : SdkYield(1, msg, FALSE, n)
  \/ \E n \in ControlEmits : SdkEnd(1, FALSE, n)
  \/ Unsubscribe(1)
  \/ Cancel("c1")
  \/ \E n \in ControlEmits : CanUseToolAsk(1, "u1", n)
  \/ \E n \in ControlEmits : ApprovalTimeout("u1", n)
  \/ \E approved \in BOOLEAN :
       RespondToolApproval("u1", approved, IF approved THEN "" ELSE "no")
  \/ \E n \in ControlEmits : CanUseToolReturn("u1", n)

GateLiveSpec ==
  /\ Init
  /\ [][GateLiveNext]_vars
  /\ WF_vars(\E n \in ControlEmits : ApprovalTimeout("u1", n))
  /\ WF_vars(\E n \in ControlEmits : CanUseToolReturn("u1", n))

\* The messages of ErrorSpec: a text, an embedded authentication error,
\* another embedded error.
ErrorSdkMessages ==
  { SdkMsg(FALSE, FALSE, "s1", <<TextDelta(<<"a">>)>>),
    SdkMsg(TRUE, TRUE, "", <<>>),
    SdkMsg(TRUE, FALSE, "", <<>>) }

\* the stream errors of ErrorSpec
StreamErrors ==
  { UnknownError, {"401"}, {"authentication"}, {"exited with code", "authentication"},
    {"rate_limit"} }

\* ErrorSpec: one subscription whose SDK fails, by a message or by a throw
ErrorNext ==
  \/ Subscribe(1, "c1", <<"p">>, "agent")
  \/ ValidateCwdOk(1)
  \/ StartStream(1)
  \/ \E msg \in ErrorSdkMessages, n \in 0..MaxEmits : SdkYield(1, msg, FALSE, n)
  \/ \E n \in 0..MaxEmits : SdkEnd(1, FALSE, n)
  \/ \E err \in StreamErrors, packaged \in BOOLEAN, stash \in BOOLEAN, n \in 0..MaxEmits :
       SdkThrow(1, err, packaged, stash, n)
  \/ \E stash \in BOOLEAN, n \in 0..MaxEmits : CatchResume(1, stash, n)
  \/ \E n \in 0..MaxEmits : StashDone(1, n)
  \/ Unsubscribe(1)
  \/ Cancel("c1")

ErrorSpec == Init /\ [][ErrorNext]_vars

\* ToolSpec: one subscription, in either mode, whose SDK asks for the use
\* of tools
ToolNext ==
  \/ \E mode \in Modes : Subscribe(1, "c1", <<"p">>, mode)
  \/ ValidateCwdOk(1)
  \/ StartStream(1)
  \/ \E toolName \in ToolNames, file \in FileValues, file_path \in PathValues,
        isUsingOllama \in BOOLEAN :
       CanUseTool(1, toolName, [file |-> file, file_path |-> file_path], isUsingOllama)
  \/ \E n \in ControlEmits : CanUseToolAsk(1, "u1", n)
  \/ \E n \in ControlEmits : ApprovalTimeout("u1", n)
  \/ \E approved \in BOOLEAN :
       RespondToolApproval("u1", approved, IF approved THEN "" ELSE "no")
  \/ \E n \in ControlEmits : CanUseToolReturn("u1", n)
  \/ \E n \in ControlEmits : SdkEnd(1, FALSE, n)
  \/ Unsubscribe(1)
  \/ Cancel("c1")

ToolSpec == Init /\ [][ToolNext]_vars

\* ------------------------------------------------------------------ caches and the preparation of the query

chatVars == <<db, activeSessions, sub, yielded, pendingToolApprovals, approvals>>

\* the entries saveMcpStatusToDisk serializes: every status of the map,
\* stamped cachedAt: Date.now()
McpCacheData(m, t) ==
  [pr \in Projects |->
     IF ~m[pr].has THEN NoDiskEntry
     ELSE [has |-> TRUE,
           servers |-> [srv \in Servers |->
                          IF m[pr].servers[srv].status = "" THEN NoCached
                          ELSE [status |-> m[pr].servers[srv].status,
                                cachedAt |-> t,
                                observedAt |-> m[pr].servers[srv].observedAt]]]]

\* the outcomes of saveMcpStatusToDisk: it returns, writeFileSync throws
\* or the process ends in it, renameSync throws or the process ends before it
SaveOutcomes == {"ok", "writeStops", "renameStops"}

\* saveMcpStatusToDisk that writes the target file itself
SaveMcpStatusInPlace(m, d, t, outcome) ==
  LET data == [state |-> "complete", entries |-> McpCacheData(m, t), mtime |-> t]
  IN CASE outcome = "ok" -> [d EXCEPT !.file = data]
       [] outcome = "writeStops" -> [d EXCEPT !.file = [data EXCEPT !.state = "partial"]]
       [] OTHER -> [d EXCEPT !.file = data]

\* saveMcpStatusToDisk: the files after it, for the map m at time t
SaveMcpStatusToDisk(m, d, t, outcome) ==
  LET data == [state |-> "complete", entries |-> McpCacheData(m, t), mtime |-> t]
  IN CASE outcome = "ok" -> [file |-> data, tmp |-> "absent"]
       [] outcome = "writeStops" -> [d EXCEPT !.tmp = "partial"]
       [] OTHER -> [d EXCEPT !.tmp = "complete"]

\* the serverMap loadMcpStatusFromDisk builds for one entry of the file
LoadedServers(entry, t) ==
  [srv \in Servers |->
     IF entry.servers[srv].status # "" /\ t - entry.servers[srv].cachedAt < MCP_STATUS_TTL
       THEN [status |-> entry.servers[srv].status,
             observedAt |-> entry.servers[srv].observedAt]
       ELSE NoStatus]

\* loadMcpStatusFromDisk: the map, the load time and the files after it
LoadMcpStatusFromDisk(m, last, d, t) ==
  IF d.file.state = "absent" THEN [m |-> m, last |-> t, d |-> d]
  ELSE IF last > 0 /\ d.file.mtime <= last THEN [m |-> m, last |-> last, d |-> d]
  ELSE IF d.file.state = "partial"
    THEN [m |-> m, last |-> t, d |-> [d EXCEPT !.file = NoFile]]
  ELSE [m |-> [pr \in Projects |->
                 LET serverMap == LoadedServers(d.file.entries[pr], t)
                 IN IF d.file.entries[pr].has /\ \E srv \in Servers : serverMap[srv].status # ""
                      THEN [has |-> TRUE, servers |-> serverMap]
                      ELSE m[pr]],
        last |-> t, d |-> d]

\* the filter of mcpServersForSdk by the cached statuses of the project
FilterByStatus(names, cachedStatuses) ==
  IF cachedStatuses.has /\ \E srv \in Servers : cachedStatuses.servers[srv].status # ""
    THEN Defined({name \in names :
                    \/ cachedStatuses.servers[name].status = ""
                    \/ cachedStatuses.servers[name].status \notin {"failed", "needs-auth"}})
    ELSE Undefined

\* queryOptions.mcpServers: the servers the SDK is given
McpServersOption(filtered) ==
  IF filtered.defined /\ filtered.names # {} THEN filtered.names ELSE {}

\* claudeQuery = await getClaudeQuery(), then the body up to fs.mkdir
PrepBegin(s, id, path, offline) ==
  /\ prep[s].pc = "idle"
  /\ setups[IF offline THEN "chat1" ELSE id] < MaxSetups
  /\ prep' = [prep EXCEPT ![s] = [PrepInit EXCEPT
                !.pc = "mkdir", !.cacheKey = IF offline THEN "chat1" ELSE id,
                !.lookupPath = path, !.isUsingOllama = offline]]
  /\ cachedClaudeQuery' = TRUE
  /\ ret' = NoReturn
  /\ UNCHANGED <<client, chatVars, symlinksCreated, mcpConfigCache, mcpServerStatusCache,
                 diskCacheLastLoadTime, disk, now, setups>>

\* after fs.mkdir: `if (!symlinksCreated.has(cacheKey))`, up to the first
\* await of the setup
SymlinkCheck(s) ==
  /\ prep[s].pc = "mkdir"
  /\ IF prep[s].cacheKey \in symlinksCreated
       THEN /\ prep' = [prep EXCEPT ![s].pc = "config"]
            /\ UNCHANGED setups
       ELSE /\ prep' = [prep EXCEPT ![s].pc = "linking"]
            /\ setups' = [setups EXCEPT ![prep[s].cacheKey] = @ + 1]
  /\ ret' = NoReturn
  /\ UNCHANGED <<client, chatVars, cachedClaudeQuery, symlinksCreated, mcpConfigCache,
                 mcpServerStatusCache, diskCacheLastLoadTime, disk, now>>

\* the last await of the setup returned: symlinksCreated.add(cacheKey)
SymlinkDone(s) ==
  /\ prep[s].pc = "linking"
  /\ symlinksCreated' = symlinksCreated \cup {prep[s].cacheKey}
  /\ prep' = [prep EXCEPT ![s].pc = "config"]
  /\ ret' = NoReturn
  /\ UNCHANGED <<client, chatVars, cachedClaudeQuery, mcpConfigCache, mcpServerStatusCache,
                 diskCacheLastLoadTime, disk, now, setups>>

\* the read of ~/.claude.json; found: fs.stat returned its stats
ReadMcpConfig(s, found) ==
  /\ prep[s].pc = "config"
  /\ IF found
       THEN /\ prep' = [prep EXCEPT ![s].pc = "filter",
                          ![s].mcpServersForSdk = Defined(Configured(prep[s].lookupPath))]
            /\ mcpConfigCache' = TRUE
       ELSE /\ prep' = [prep EXCEPT ![s].pc = "filter"]
            /\ UNCHANGED mcpConfigCache
  /\ ret' = NoReturn
  /\ UNCHANGED <<client, chatVars, cachedClaudeQuery, symlinksCreated, mcpServerStatusCache,
                 diskCacheLastLoadTime, disk, now, setups>>

\* the filter that takes every status different from "failed" as working
FilterMcpKeepsNeedsAuth(s) ==
  /\ prep[s].pc = "filter"
  /\ IF prep[s].mcpServersForSdk.defined /\ ~prep[s].isUsingOllama
       THEN LET path == prep[s].lookupPath
                l == IF ~mcpServerStatusCache[path].has
                       THEN LoadMcpStatusFromDisk(mcpServerStatusCache,
                                                  diskCacheLastLoadTime, disk, now)
                       ELSE [m |-> mcpServerStatusCache, last |-> diskCacheLastLoadTime,
                             d |-> disk]
                st == l.m[path]
            IN /\ mcpServerStatusCache' = l.m
               /\ diskCacheLastLoadTime' = l.last
               /\ disk' = l.d
               /\ prep' = [prep EXCEPT ![s].pc = "query",
                             ![s].mcpServersFiltered =
                               IF st.has /\ \E srv \in Servers : st.servers[srv].status # ""
                                 THEN Defined({name \in prep[s].mcpServersForSdk.names :
                                                 st.servers[name].status # "failed"})
                                 ELSE Undefined]
       ELSE /\ prep' = [prep EXCEPT ![s].pc = "query", ![s].mcpServersFiltered = Undefined]
            /\ UNCHANGED <<mcpServerStatusCache, diskCacheLastLoadTime, disk>>
  /\ ret' = NoReturn
  /\ UNCHANGED <<client, chatVars, cachedClaudeQuery, symlinksCreated, mcpConfigCache, now, setups>>

\* "Filter MCP servers": the load of the file if the map has no entry for
\* the project, then the filter
FilterMcp(s) ==
  /\ prep[s].pc = "filter"
  /\ IF prep[s].mcpServersForSdk.defined /\ ~prep[s].isUsingOllama
       THEN LET path == prep[s].lookupPath
                l == IF ~mcpServerStatusCache[path].has
                       THEN LoadMcpStatusFromDisk(mcpServerStatusCache,
                                                  diskCacheLastLoadTime, disk, now)
                       ELSE [m |-> mcpServerStatusCache, last |-> diskCacheLastLoadTime,
                             d |-> disk]
            IN /\ mcpServerStatusCache' = l.m
               /\ diskCacheLastLoadTime' = l.last
               /\ disk' = l.d
               /\ prep' = [prep EXCEPT ![s].pc = "query",
                             ![s].mcpServersFiltered =
                               FilterByStatus(prep[s].mcpServersForSdk.names, l.m[path])]
       ELSE /\ prep' = [prep EXCEPT ![s].pc = "query", ![s].mcpServersFiltered = Undefined]
            /\ UNCHANGED <<mcpServerStatusCache, diskCacheLastLoadTime, disk>>
  /\ ret' = NoReturn
  /\ UNCHANGED <<client, chatVars, cachedClaudeQuery, symlinksCreated, mcpConfigCache, now, setups>>

\* the init message of the SDK: "Cache MCP server statuses for next request"
SdkInitMessage(s, table, outcome) ==
  /\ prep[s].pc = "query"
  /\ LET statusMap == [has |-> TRUE,
                       servers |-> [srv \in Servers |->
                                      IF table[srv] = "" THEN NoStatus
                                      ELSE [status |-> table[srv], observedAt |-> now]]]
         m == [mcpServerStatusCache EXCEPT ![prep[s].lookupPath] = statusMap]
     IN /\ mcpServerStatusCache' = m
        /\ disk' = SaveMcpStatusToDisk(m, disk, now, outcome)
  /\ prep' = [prep EXCEPT ![s].pc = "inited"]
  /\ ret' = NoReturn
  /\ UNCHANGED <<client, chatVars, cachedClaudeQuery, symlinksCreated, mcpConfigCache,
                 diskCacheLastLoadTime, now, setups>>

\* the body of the subscription ends
PrepEnd(s) ==
  /\ prep[s].pc \in {"query", "inited"}
  /\ prep' = [prep EXCEPT ![s] = PrepInit]
  /\ ret' = NoReturn
  /\ UNCHANGED <<client, chatVars, cachedClaudeQuery, symlinksCreated, mcpConfigCache,
                 mcpServerStatusCache, diskCacheLastLoadTime, disk, now, setups>>

\* time passes
Tick ==
  /\ now < MaxTime
  /\ now' = now + 1
  /\ ret' = NoReturn
  /\ UNCHANGED <<client, chatVars, cachedClaudeQuery, symlinksCreated, mcpConfigCache,
                 mcpServerStatusCache, diskCacheLastLoadTime, disk, prep, setups>>

\* clearClaudeCaches; unlinkOk: unlinkSync does not throw
ClearClaudeCaches(unlinkOk) ==
  /\ cachedClaudeQuery' = FALSE
  /\ symlinksCreated' = {}
  /\ mcpConfigCache' = FALSE
  /\ mcpServerStatusCache' = [pr \in Projects |-> NoStatusMap]
  /\ diskCacheLastLoadTime' = 0
  /\ disk' = IF disk.file.state # "absent" /\ unlinkOk
               THEN [disk EXCEPT !.file = NoFile] ELSE disk
  /\ ret' = [op |-> "clearClaudeCaches", ok |-> TRUE]
  /\ UNCHANGED <<client, chatVars, now, prep, setups>>

\* the application exits and starts again: the module's variables are
\* initialized anew, the files and the rows stay
Restart ==
  /\ cachedClaudeQuery' = FALSE
  /\ symlinksCreated' = {}
  /\ mcpConfigCache' = FALSE
  /\ mcpServerStatusCache' = [pr \in Projects |-> NoStatusMap]
  /\ diskCacheLastLoadTime' = 0
  /\ prep' = [s \in Subs |-> PrepInit]
  /\ setups' = [k \in CacheKeys |-> 0]
  /\ activeSessions' = [id \in GateSubChatIds |-> Null]
  /\ sub' = [s \in Subs |-> SubInit]
  /\ pendingToolApprovals' = [u \in ToolUseIds |-> NoEntry]
  /\ approvals' = [u \in ToolUseIds |-> ApprovalInit]
  /\ ret' = NoReturn
  /\ UNCHANGED <<db, yielded, disk, now, client>>

\* CacheSpec: the queries of one subscription after the other, the MCP
\* caches of the module and the status file
CacheNext ==
  \/ \E path \in Projects : PrepBegin(1, "c1", path, FALSE)
  \/ SymlinkCheck(1)
  \/ SymlinkDone(1)
  \/ \E found \in BOOLEAN : ReadMcpConfig(1, found)
  \/ FilterMcp(1)
  \/ \E table \in McpInitMessages, outcome \in SaveOutcomes :
       SdkInitMessage(1, table, outcome)
  \/ PrepEnd(1)
  \/ Tick
  \/ \E unlinkOk \in BOOLEAN : ClearClaudeCaches(unlinkOk)
  \/ Restart

CacheSpec == Init /\ [][CacheNext]_vars

\* SymlinkSpec: the preparations of concurrent subscriptions of one project
\* up to their queries
SymlinkNext ==
  \/ \E s \in Subs, id \in GateSubChatIds, offline \in BOOLEAN :
       PrepBegin(s, id, "/p1", offline)
  \/ \E s \in Subs : SymlinkCheck(s)
  \/ \E s \in Subs : SymlinkDone(s)
  \/ \E s \in Subs : ReadMcpConfig(s, TRUE)
  \/ \E s \in Subs : FilterMcp(s)
  \/ \E s \in Subs : PrepEnd(s)
  \/ ClearClaudeCaches(TRUE)
  \/ Restart

SymlinkSpec == Init /\ [][SymlinkNext]_vars

\* ------------------------------------------------------------------ GlobSpec

\* GlobSpec: one subscription whose SDK yields, in this order, the messages
\* of a reply with a search: three text deltas and the end of the text with
\* the call of Glob, the output of Glob, then a second text with the finish
\* chunk.
GlobScript ==
  << SdkMsg(FALSE, FALSE, "s1",
            <<TextDelta(<<"o">>), TextDelta(<<"k">>), TextDelta(<<".">>), TextEnd,
              ToolInput("t", "Glob")>>),
     SdkMsg(FALSE, FALSE, "", <<ToolOutput("t")>>),
     SdkMsg(FALSE, FALSE, "",
            <<TextDelta(<<"d", "o", "n", "e">>), TextEnd, SdkFinish>>) >>

\* the chunks of the whole script
GlobChunks == GlobScript[1].chunks \o GlobScript[2].chunks \o GlobScript[3].chunks

\* the message the SDK yields next
GlobMessage == GlobScript[IF yielded < Len(GlobScript) THEN yielded + 1 ELSE Len(GlobScript)]

\* emit.next calls of a handler run in GlobSpec: the subscriber leaves
\* within the message, or takes every chunk
GlobEmits == {MaxEmits, Len(GlobChunks)}

GlobNext ==
  \/ \E id \in GateSubChatIds, mode \in Modes : Subscribe(1, id, <<"p">>, mode)
  \/ ValidateCwdOk(1)
  \/ StartStream(1)
  \/ \E stash \in BOOLEAN, n \in GlobEmits : SdkYield(1, GlobMessage, stash, n)
  \/ \E stash \in BOOLEAN, n \in GlobEmits : SdkEnd(1, stash, n)
  \/ \E n \in GlobEmits : StashDone(1, n)
  \/ Unsubscribe(1)
  \/ \E id \in GateSubChatIds : Cancel(id)

GlobSpec == Init /\ [][GlobNext]_vars

\* ------------------------------------------------------------------ parseMentions

\* longest prompt, in symbols
MaxPrompt == 4

\* the prefix of a mention of each type
Opener ==
  [tool |-> "@[tool:", agent |-> "@[agent:", skill |-> "@[skill:",
   file |-> "@[file:", folder |-> "@[folder:"]

MentionTypes == {"file", "folder", "skill", "agent", "tool"}

\* A prompt is a sequence of symbols: a prefix of a mention, the closing
\* bracket, a character of [a-zA-Z0-9_-], a character outside it, a blank.
PromptSymbols == {Opener[type] : type \in MentionTypes} \cup {"]", "x", "!", " "}

MentionPrompts == UNION {[1..n -> PromptSymbols] : n \in 0..MaxPrompt}

\* [^\]]+\] from position i + 1 on: the position of the bracket that closes
\* a token that begins at i, 0 if no token begins there
TokenEnd(text, i, types) ==
  LET closes == {j \in (i + 1)..Len(text) : text[j] = "]"}
      j == CHOOSE k \in closes : \A l \in closes : k <= l
  IN IF \E type \in types : text[i] = Opener[type]
       THEN IF closes # {} /\ j >= i + 2 THEN j ELSE 0
       ELSE 0

RECURSIVE MentionMatches(_, _)
\* while ((match = mentionRegex.exec(prompt)) !== null): the matches from
\* position i on, each with its type and its name
MentionMatches(text, i) ==
  IF i > Len(text) THEN <<>>
  ELSE LET j == TokenEnd(text, i, MentionTypes) IN
    IF j = 0 THEN MentionMatches(text, i + 1)
    ELSE <<[type |-> CHOOSE type \in MentionTypes : text[i] = Opener[type],
            name |-> SubSeq(text, i + 1, j - 1)]>> \o MentionMatches(text, j + 1)

\* a test of the tool name that every name passes
TestToolNameAny(name) == TRUE

\* /^[a-zA-Z0-9_-]+$/.test(name)
TestToolName(name) == name # <<>> /\ \A k \in 1..Len(name) : name[k] = "x"

RECURSIVE NamesOf(_, _)
\* the names pushed onto the list of one type; a tool name is pushed only
\* if it passes the test
NamesOf(matches, type) ==
  IF matches = <<>> THEN <<>>
  ELSE LET m == Head(matches) IN
    (IF m.type = type /\ (type = "tool" => TestToolName(m.name))
       THEN <<m.name>> ELSE <<>>) \o NamesOf(Tail(matches), type)

RECURSIVE ReplaceTokens(_, _, _)
\* .replace(/@\[type:[^\]]+\]/g, "") from position i on
ReplaceTokens(text, i, type) ==
  IF i > Len(text) THEN <<>>
  ELSE LET j == TokenEnd(text, i, {type}) IN
    IF j = 0 THEN <<text[i]>> \o ReplaceTokens(text, i + 1, type)
    ELSE ReplaceTokens(text, j + 1, type)

RECURSIVE Trim(_)
\* String.prototype.trim()
Trim(text) ==
  IF text = <<>> THEN <<>>
  ELSE IF Head(text) = " " THEN Trim(Tail(text))
  ELSE IF text[Len(text)] = " " THEN Trim(SubSeq(text, 1, Len(text) - 1))
  ELSE text

RECURSIVE ToolHints(_)
\* toolMentions.map((t) => `Use the ${t} tool for this request.`).join(" ")
ToolHints(names) ==
  IF names = <<>> THEN <<>>
  ELSE <<"Use the ">> \o Head(names) \o <<" tool for this request.">>
       \o (IF Tail(names) = <<>> THEN <<>> ELSE <<" ">> \o ToolHints(Tail(names)))

\* the prompt without its agent, skill and tool tokens, trimmed
CleanMentions(prompt) ==
  Trim(ReplaceTokens(ReplaceTokens(ReplaceTokens(prompt, 1, "agent"), 1, "skill"), 1, "tool"))

parseMentions(prompt) ==
  LET matches == MentionMatches(prompt, 1)
      toolMentions == NamesOf(matches, "tool")
      cleaned == CleanMentions(prompt)
  IN [cleanedPrompt |-> IF Len(toolMentions) > 0
                          THEN ToolHints(toolMentions) \o <<"\n\n">> \o cleaned
                          ELSE cleaned,
      agentMentions |-> NamesOf(matches, "agent"),
      skillMentions |-> NamesOf(matches, "skill"),
      fileMentions |-> NamesOf(matches, "file"),
      folderMentions |-> NamesOf(matches, "folder"),
      toolMentions |-> toolMentions]

\* MentionSpec: parseMentions applied to a prompt
MentionInit ==
  /\ db = [id \in GateSubChatIds |-> [messages |-> <<>>, sessionId |-> "", streamId |-> Null]]
  /\ activeSessions = [id \in GateSubChatIds |-> Null]
  /\ sub = [s \in Subs |-> SubInit]
  /\ yielded = 0
  /\ pendingToolApprovals = [u \in ToolUseIds |-> NoEntry]
  /\ approvals = [u \in ToolUseIds |-> ApprovalInit]
  /\ \E prompt \in MentionPrompts : ret = [op |-> "prompt", ok |-> TRUE, prompt |-> prompt]
  /\ CachesInit
  /\ client = ClientInit

ParseMentions ==
  /\ ret.op = "prompt"
  /\ ret' = [op |-> "parseMentions", ok |-> TRUE, prompt |-> ret.prompt,
             result |-> parseMentions(ret.prompt)]
  /\ UNCHANGED <<cacheVars, client>>
  /\ UNCHANGED chatVars

MentionNext == ParseMentions

MentionSpec == MentionInit /\ [][MentionNext]_vars

\* ------------------------------------------------------------------ client adapter

\* The stream adapter of the renderer (IPCChatTransport.sendMessages). The
\* ReadableStream and its controller belong to the platform and are modelled
\* by the Streams standard: enqueue and close throw a TypeError unless the
\* stream is readable and no close was requested, error is ignored once the
\* stream is closed or errored. The chat subscription is an environment
\* that calls onData, onError and onComplete in any order.

\* the chunks an adapter is handed
ClientChunks ==
  { AskUserQuestion("u1"), AskUserQuestion("u2"),
    AskUserQuestionTimeout("u1"), AskUserQuestionTimeout("u2"),
    TextDelta(<<"a">>), ToolInput("t1", "Glob"),
    AuthErrorChunk, ErrorChunk }

\* controller.enqueue(chunk): threw tells the TypeError, errored that its
\* message names an errored stream
ControllerEnqueue(c, chunk) ==
  IF c.state = "readable"
    THEN [c |-> [c EXCEPT !.enqueued = Append(@, chunk)], threw |-> FALSE, errored |-> FALSE]
    ELSE [c |-> c, threw |-> TRUE, errored |-> c.state = "errored"]

\* controller.close(); drained: no chunk waits in the queue
ControllerClose(c, drained) ==
  IF c.state = "readable"
    THEN [c |-> [c EXCEPT !.state = IF drained THEN "closed" ELSE "closing"],
          threw |-> FALSE, errored |-> FALSE]
    ELSE [c |-> c, threw |-> TRUE, errored |-> c.state = "errored"]

\* controller.error(e)
ControllerError(c) ==
  IF c.state \in {"readable", "closing"} THEN [c EXCEPT !.state = "errored"] ELSE c

\* "tool-input".startsWith test and the other types that leave the pending
\* question alone
ShouldClearOnChunk(chunk) ==
  chunk.type \notin {"ask-user-question", "ask-user-question-timeout",
                     "ask-user-question-result", "tool-input-available",
                     "tool-input-start", "tool-input-delta", "start", "start-step"}

\* the timeout branch without the comparison of the toolUseIds
MirrorQuestionAnyTimeout(pending, id, chunk) ==
  LET p1 == IF chunk.type = "ask-user-question"
              THEN [pending EXCEPT ![id] = chunk.toolCallId] ELSE pending
      p2 == IF chunk.type = "ask-user-question-timeout" /\ p1[id] # NoQuestion
              THEN [p1 EXCEPT ![id] = NoQuestion] ELSE p1
  IN IF ShouldClearOnChunk(chunk) THEN [p2 EXCEPT ![id] = NoQuestion] ELSE p2

\* what onData does to pendingUserQuestionsAtom for the adapter of sub-chat id
MirrorQuestion(pending, id, chunk) ==
  LET p1 == IF chunk.type = "ask-user-question"
              THEN [pending EXCEPT ![id] = chunk.toolCallId] ELSE pending
      p2 == IF /\ chunk.type = "ask-user-question-timeout"
               /\ p1[id] # NoQuestion
               /\ p1[id] = chunk.toolCallId
              THEN [p1 EXCEPT ![id] = NoQuestion] ELSE p1
  IN IF ShouldClearOnChunk(chunk) THEN [p2 EXCEPT ![id] = NoQuestion] ELSE p2

\* the end of onData with the test `if (isStreamClosed) return`
EnqueueChunkDropsErrors(c, chunk) ==
  IF c.isStreamClosed
    THEN [c |-> c, enqueueCalled |-> FALSE, escaped |-> FALSE]
    ELSE LET e == ControllerEnqueue(c, chunk) IN
      [c |-> IF e.threw
               THEN [e.c EXCEPT !.isStreamClosed = TRUE,
                                !.isStreamErrored = @ \/ e.errored]
               ELSE e.c,
       enqueueCalled |-> TRUE, escaped |-> FALSE]

\* the end of onData: the chunk is dropped once the stream is marked closed
\* unless it is an error chunk, else enqueued inside try/catch
EnqueueChunk(c, chunk) ==
  IF c.isStreamClosed /\ chunk.type # "error"
    THEN [c |-> c, enqueueCalled |-> FALSE, escaped |-> FALSE]
    ELSE LET e == ControllerEnqueue(c, chunk) IN
      [c |-> IF e.threw
               THEN [e.c EXCEPT !.isStreamClosed = TRUE,
                                !.isStreamErrored = @ \/ e.errored]
               ELSE e.c,
       enqueueCalled |-> TRUE, escaped |-> FALSE]

\* onData(chunk) of adapter a
OnData(a, chunk) ==
  /\ client.events < MaxEvents
  /\ LET c == client.adapter[a]
         pending == MirrorQuestion(client.pendingUserQuestions, SubChatOf(a), chunk)
         out == IF chunk.type = "auth-error"
                  THEN [c |-> ControllerError([c EXCEPT !.isStreamClosed = TRUE,
                                                        !.isStreamErrored = TRUE]),
                        enqueueCalled |-> FALSE, escaped |-> FALSE]
                  ELSE EnqueueChunk(c, chunk)
     IN /\ client' = [client EXCEPT !.adapter[a] = out.c,
                                    !.pendingUserQuestions = pending,
                                    !.events = @ + 1]
        /\ ret' = [op |-> "onData", ok |-> TRUE, a |-> a, chunk |-> chunk,
                   enqueueCalled |-> out.enqueueCalled, closeCalled |-> FALSE,
                   escaped |-> out.escaped]
  /\ UNCHANGED <<chatVars, cacheVars>>

\* onError(err) of adapter a
OnError(a) ==
  /\ client.events < MaxEvents
  /\ client' = [client EXCEPT
                  !.adapter[a] = ControllerError([@ EXCEPT !.isStreamClosed = TRUE,
                                                           !.isStreamErrored = TRUE]),
                  !.events = @ + 1]
  /\ ret' = [op |-> "onError", ok |-> TRUE, a |-> a, chunk |-> FinishChunk,
             enqueueCalled |-> FALSE, closeCalled |-> FALSE, escaped |-> FALSE]
  /\ UNCHANGED <<chatVars, cacheVars>>

\* onComplete that closes the controller whatever isStreamErrored says
OnCompleteClosesAlways(a, drained) ==
  /\ client.events < MaxEvents
  /\ LET c == [client.adapter[a] EXCEPT !.isStreamClosed = TRUE]
         e == ControllerClose(c, drained)
     IN /\ client' = [client EXCEPT
                        !.adapter[a] = [e.c EXCEPT !.isStreamErrored = @ \/ e.errored],
                        !.events = @ + 1]
        /\ ret' = [op |-> "onComplete", ok |-> TRUE, a |-> a, chunk |-> FinishChunk,
                   enqueueCalled |-> FALSE, closeCalled |-> TRUE, escaped |-> FALSE]
  /\ UNCHANGED <<chatVars, cacheVars>>

\* onComplete() of adapter a
OnComplete(a, drained) ==
  /\ client.events < MaxEvents
  /\ LET c == [client.adapter[a] EXCEPT !.isStreamClosed = TRUE]
         e == ControllerClose(c, drained)
     IN /\ client' = [client EXCEPT
                        !.adapter[a] =
                          IF ~c.isStreamErrored
                            THEN [e.c EXCEPT !.isStreamErrored = @ \/ e.errored]
                            ELSE c,
                        !.events = @ + 1]
        /\ ret' = [op |-> "onComplete", ok |-> TRUE, a |-> a, chunk |-> FinishChunk,
                   enqueueCalled |-> FALSE, closeCalled |-> ~c.isStreamErrored,
                   escaped |-> FALSE]
  /\ UNCHANGED <<chatVars, cacheVars>>

\* the abort listener without controller.close()
AbortWithoutClose(a, drained) ==
  /\ client.events < MaxEvents
  /\ ~client.adapter[a].aborted
  /\ client' = [client EXCEPT
                  !.adapter[a] = [@ EXCEPT !.isStreamClosed = TRUE,
                                           !.unsubscribed = TRUE, !.aborted = TRUE],
                  !.cancelled[SubChatOf(a)] = @ + 1,
                  !.events = @ + 1]
  /\ ret' = [op |-> "abort", ok |-> TRUE, a |-> a, chunk |-> FinishChunk,
             enqueueCalled |-> FALSE, closeCalled |-> FALSE, escaped |-> FALSE]
  /\ UNCHANGED <<chatVars, cacheVars>>

\* the listener of the abort signal of adapter a; the signal fires once
Abort(a, drained) ==
  /\ client.events < MaxEvents
  /\ ~client.adapter[a].aborted
  /\ LET c == [client.adapter[a] EXCEPT !.isStreamClosed = TRUE,
                                        !.unsubscribed = TRUE, !.aborted = TRUE]
     IN client' = [client EXCEPT
                     !.adapter[a] = ControllerClose(c, drained).c,
                     !.cancelled[SubChatOf(a)] = @ + 1,
                     !.events = @ + 1]
  /\ ret' = [op |-> "abort", ok |-> TRUE, a |-> a, chunk |-> FinishChunk,
             enqueueCalled |-> FALSE, closeCalled |-> TRUE, escaped |-> FALSE]
  /\ UNCHANGED <<chatVars, cacheVars>>

\* the reader takes the last queued chunk of a stream whose close was requested
ReaderDrains(a) ==
  /\ client.adapter[a].state = "closing"
  /\ client' = [client EXCEPT !.adapter[a].state = "closed"]
  /\ ret' = NoReturn
  /\ UNCHANGED <<chatVars, cacheVars>>

\* ClientSpec: two adapters and the events of their subscriptions
ClientNext ==
  \/ \E a \in Adapters, chunk \in ClientChunks : OnData(a, chunk)
  \/ \E a \in Adapters : OnError(a)
  \/ \E a \in Adapters, drained \in BOOLEAN : OnComplete(a, drained)
  \/ \E a \in Adapters, drained \in BOOLEAN : Abort(a, drained)
  \/ \E a \in Adapters : ReaderDrains(a)

ClientSpec == Init /\ [][ClientNext]_vars

\* ------------------------------------------------------------------ properties

IsPrefix(a, b) == Len(a) <= Len(b) /\ \A i \in 1..Len(a) : a[i] = b[i]

RECURSIVE FromSdk(_)
\* the chunks of a sequence that the transformer derived
FromSdk(chunks) ==
  IF chunks = <<>> THEN <<>>
  ELSE IF Head(chunks).src = "sdk" THEN <<Head(chunks)>> \o FromSdk(Tail(chunks))
  ELSE FromSdk(Tail(chunks))

HasFinish(chunks) == \E i \in 1..Len(chunks) : chunks[i].type = "finish"

\* the parts a closure holds once its buffered text is flushed
PartsWithText(r) ==
  IF \E i \in 1..Len(r.currentText) : r.currentText[i] # " "
    THEN r.parts \o <<[kind |-> "text", text |-> r.currentText, toolCallId |-> "",
                       toolName |-> "", state |-> ""]>>
    ELSE r.parts

\* In this step the stream loop of s is left without processing a message:
\* the stream ended, the abort was seen at the next message, or the
\* iterator threw.
StreamingEnds(s) ==
  /\ sub[s].pc \in {"streaming", "catching"}
  /\ sub'[s].pc \notin {"streaming", "catching"}
  /\ sub'[s].messageCount = sub[s].messageCount
  /\ sub'[s].reason \in {"ok", "stream_error"}

\* C1: when streaming ends with at least one accumulated part (buffered
\* non-blank text counts as a final text part), by the end of the stream, by
\* an abort or by a throw of the iterator, the row written holds the list
\* saved before streaming plus one assistant message with exactly the parts
\* accumulated, and the stream marker is null.
C1_FinalizationInvariant ==
  [][\A s \in Subs :
       (StreamingEnds(s) /\ PartsWithText(sub[s]) # <<>>) =>
         /\ db'[sub[s].subChatId].messages =
              Append(sub[s].messagesToSave,
                     [id |-> s, role |-> "assistant", parts |-> PartsWithText(sub[s]),
                      metadata |-> sub[s].metadata])
         /\ db'[sub[s].subChatId].streamId = Null]_vars

\* a subscription whose iterator threw after an abort stored its parts
C1_Witness ==
  \E s \in Subs :
    /\ sub[s].pc = "done" /\ sub[s].reason = "stream_error"
    /\ sub[s].unsubscribed /\ sub[s].messageCount > 0
    /\ Len(sub[s].parts) > 1
    /\ db[sub[s].subChatId].messages =
         Append(sub[s].messagesToSave, AssistantMessage(s, sub[s]))
    /\ db[sub[s].subChatId].streamId = Null

\* C2: a subscription that ends on a failure during streaming (an embedded
\* SDK error, a throw of the iterator, an unexpected exception) has stored
\* the parts it accumulated as an assistant message by the time it completes.
C2_PartialProgressSaved ==
  \A s \in Subs :
    (/\ sub[s].completed
     /\ sub[s].reason \in {"sdk_error", "stream_error", "unexpected_error"}
     /\ Len(sub[s].parts) > 0)
      => sub[s].saves > 0

\* C3: every write to the stored message list of a sub-conversation extends
\* the list stored before the write.
C3_WritesExtendStoredList ==
  [][\A id \in SubChatIds : IsPrefix(db[id].messages, db'[id].messages)]_vars

\* the assistant messages of subscription s in a stored list
AssistantOf(messages, s) ==
  {i \in 1..Len(messages) : messages[i].role = "assistant" /\ messages[i].id = s}

\* C4: a subscription writes at most one assistant message, and the row
\* update that appends it writes the list saved before streaming plus that
\* message, the resume session id (when the SDK gave one) and a null stream
\* marker. When the body completes in the same turn, the teardown stores the
\* session id of the last SDK message over it.
C4_OneAssistantSave ==
  [][\A s \in Subs :
       /\ sub'[s].pc # "idle" =>
            Cardinality(AssistantOf(db'[sub'[s].subChatId].messages, s)) <= 1
       /\ sub'[s].saves # sub[s].saves =>
            LET id == sub[s].subChatId
                r == sub'[s]
                saved == IF r.metadata.sessionId # "" THEN r.metadata.sessionId
                         ELSE db[id].sessionId
            IN /\ sub[s].saves = 0 /\ r.saves = 1
               /\ db'[id].messages =
                    Append(r.messagesToSave,
                           [id |-> s, role |-> "assistant", parts |-> r.parts,
                            metadata |-> r.metadata])
               /\ db'[id].streamId = Null
               /\ db'[id].sessionId =
                    IF r.completed /\ ~sub[s].unsubscribed /\ r.currentSessionId # ""
                      THEN r.currentSessionId ELSE saved]_vars

\* a plan-mode subscription stopped by ExitPlanMode stored its one message
C4_Witness ==
  \E s \in Subs :
    /\ sub[s].pc = "done" /\ sub[s].reason = "plan_complete" /\ sub[s].saves = 1
    /\ Cardinality(AssistantOf(db[sub[s].subChatId].messages, s)) = 1
    /\ db[sub[s].subChatId].sessionId = "s1"
    /\ db[sub[s].subChatId].streamId = Null

\* C5: when streaming ends with no part and no non-blank buffered text (end
\* of the stream, abort, throw of the iterator), no assistant message is
\* appended and the subscription's stream marker is no longer stored.
C5_EmptyEndClearsMarker ==
  [][\A s \in Subs :
       (StreamingEnds(s) /\ PartsWithText(sub[s]) = <<>>) =>
         /\ db'[sub[s].subChatId].messages = db[sub[s].subChatId].messages
         /\ db'[sub[s].subChatId].streamId # s]_vars

\* the step of s that reads the row and saves the user message
SavesUser(s) == sub[s].pc = "validating" /\ sub'[s].pc = "preparing"

LastIsUserText(messages, text) ==
  /\ messages # <<>>
  /\ messages[Len(messages)].role = "user"
  /\ messages[Len(messages)].parts[1].text = text

\* C6: a request whose prompt is the text of the last stored message, a user
\* message, reuses it and writes nothing; any other request appends exactly
\* one user message with its prompt before streaming starts.
C6_DuplicateSuppression ==
  [][\A s \in Subs :
       SavesUser(s) =>
         LET id == sub[s].subChatId
             old == db[id].messages
         IN IF LastIsUserText(old, sub[s].prompt)
              THEN db'[id].messages = old /\ sub'[s].messagesToSave = old
              ELSE /\ Len(db'[id].messages) = Len(old) + 1
                   /\ IsPrefix(old, db'[id].messages)
                   /\ LastIsUserText(db'[id].messages, sub[s].prompt)
                   /\ sub'[s].messagesToSave = db'[id].messages]_vars

\* the second request repeated the prompt of the first: one user message stored
C6_Witness ==
  \E s, t \in Subs :
    /\ s < t /\ sub[s].prompt = sub[t].prompt /\ sub[s].subChatId = sub[t].subChatId
    /\ sub[t].pc = "preparing"
    /\ Len(db[sub[t].subChatId].messages) = 1
    /\ sub[t].messagesToSave = db[sub[t].subChatId].messages
    /\ db[sub[t].subChatId].messages[1].id = s

\* C7: once every subscription opened for a sub-conversation has ended, the
\* stored stream marker of the sub-conversation is null.
C7_MarkerOnlyWhileStreaming ==
  \A id \in SubChatIds :
    (/\ \E s \in Subs : sub[s].subChatId = id
     /\ \A s \in Subs : sub[s].subChatId = id => sub[s].pc = "done")
      => db[id].streamId = Null

\* the chunks delivered to the subscriber of s in this step
DeliveredNow(s) ==
  SubSeq(sub'[s].delivered, Len(sub[s].delivered) + 1, Len(sub'[s].delivered))

\* C8: once the abort signal of a session is set, no chunk is delivered and
\* none is accumulated: the parts change only by the flush of the buffered
\* text at the save. In the step in which ExitPlanMode completes and sets
\* the signal, the last transformer chunk delivered is that tool output, and
\* the text buffer holds nothing of the chunks behind it.
C8_AbortStopsChunks ==
  [][\A s \in Subs :
       /\ sub[s].aborted =>
            /\ sub'[s].delivered = sub[s].delivered
            /\ sub'[s].currentText = sub[s].currentText
            /\ sub'[s].parts \in {sub[s].parts, PartsWithText(sub[s])}
       /\ (~sub[s].planCompleted /\ sub'[s].planCompleted) =>
            LET new == FromSdk(DeliveredNow(s))
                deltas == {i \in 1..Len(new) : new[i].type = "text-delta"}
            IN /\ sub'[s].aborted
               /\ new # <<>>
               /\ new[Len(new)].type = "tool-output-available"
               /\ new[Len(new)].toolCallId = sub'[s].exitPlanModeToolCallId
               /\ deltas = {} => sub'[s].currentText = sub[s].currentText]_vars

\* ExitPlanMode completed in a message that carried a further chunk
C8_Witness ==
  \E s \in Subs :
    /\ sub[s].planCompleted /\ sub[s].aborted
    /\ Len(FromSdk(sub[s].delivered)) < Len(sub[s].transformed)
    /\ sub[s].transformed[Len(sub[s].transformed)].type = "text-delta"
    /\ sub[s].delivered[Len(sub[s].delivered)] = FinishChunk

\* C9: the transformer chunks delivered to the subscriber are a prefix of the
\* concatenation of the transformer outputs of the messages in the order the
\* SDK yielded them, and all of it while the session has not stopped.
C9_ChunkOrder ==
  \A s \in Subs :
    /\ IsPrefix(FromSdk(sub[s].delivered), sub[s].transformed)
    /\ (sub[s].pc = "streaming" /\ ~sub[s].aborted /\ sub[s].isObservableActive)
         => FromSdk(sub[s].delivered) = sub[s].transformed

\* three messages delivered in full to a running session
C9_Witness ==
  \E s \in Subs :
    /\ sub[s].pc = "streaming" /\ ~sub[s].aborted /\ sub[s].messageCount = 3
    /\ Len(sub[s].delivered) >= 5
    /\ FromSdk(sub[s].delivered) = sub[s].transformed

\* C10: a subscription that completes without its session having been
\* aborted, and whose subscriber accepted every chunk, has delivered a finish
\* chunk.
C10_FinishBeforeComplete ==
  [][\A s \in Subs :
       (/\ ~sub[s].completed /\ sub'[s].completed
        /\ ~sub[s].aborted /\ ~sub'[s].nextThrew)
         => HasFinish(sub'[s].delivered)]_vars

\* C11: once the abort signal of a streaming session is set, the session
\* reaches finalization (the body has completed the channel and returned)
\* whatever the SDK does afterwards.
C11_AbortLeadsToFinalization ==
  \A s \in Subs :
    (sub[s].pc = "streaming" /\ sub[s].aborted)
      ~> (sub[s].pc = "done" /\ sub[s].completed)

\* the step is cancel(id) with a controller registered for id
CancelStep(id) ==
  /\ ret' = [op |-> "cancel", ok |-> TRUE]
  /\ activeSessions[id] # Null
  /\ activeSessions'[id] = Null

\* the entries of the gate owned by sub-chat id
OwnedBy(id) == {u \in ToolUseIds : pendingToolApprovals[u].subChatId = id}

\* after the step the approval u is out of the gate, denied with message
SweptWith(u, message) ==
  /\ pendingToolApprovals'[u] = NoEntry
  /\ approvals'[u].state = "resolved"
  /\ approvals'[u].timer = "cleared"
  /\ approvals'[u].decision = [approved |-> FALSE, message |-> message]

\* C12 (as the code has it): cancel(id) with a registered handle aborts the
\* registered controller, removes the handle, returns cancelled:true, and
\* every pending approval of the sub-chat leaves the gate denied with the
\* reason "Session cancelled.".
C12_CancelSweepsGate ==
  [][\A id \in GateSubChatIds :
       CancelStep(id) =>
         /\ sub'[activeSessions[id]].aborted
         /\ \A u \in OwnedBy(id) : SweptWith(u, "Session cancelled.")]_vars

\* C12 (as stated): the approvals swept by cancel(id) are denied with the
\* reason "Session ended.".
C12_CancelReasonSessionEnded ==
  [][\A id \in GateSubChatIds :
       CancelStep(id) =>
         /\ sub'[activeSessions[id]].aborted
         /\ \A u \in OwnedBy(id) : SweptWith(u, "Session ended.")]_vars

\* a cancel has just swept a pending approval
C12_Witness ==
  /\ ret = [op |-> "cancel", ok |-> TRUE]
  /\ \E u \in ToolUseIds :
       /\ approvals[u].state = "resolved"
       /\ approvals[u].decision.message = "Session cancelled."
       /\ sub[approvals[u].s].aborted
       /\ activeSessions[sub[approvals[u].s].subChatId] = Null

\* the step is the client's unsubscribe of s (not the teardown that
\* emit.complete() runs)
UnsubscribeStep(s) ==
  /\ ~sub[s].unsubscribed
  /\ sub'[s].unsubscribed
  /\ ~sub'[s].completed

\* C13: unsubscribing, with no cancel call, sets the abort signal, removes
\* the registry entry of the sub-chat, denies and removes every pending
\* approval of the sub-chat, clears the stored stream marker, and no chunk
\* is delivered to the subscriber afterwards.
C13_UnsubscribeCleansUp ==
  [][\A s \in Subs :
       /\ UnsubscribeStep(s) =>
            /\ sub'[s].aborted
            /\ activeSessions'[sub[s].subChatId] = Null
            /\ \A u \in OwnedBy(sub[s].subChatId) : SweptWith(u, "Session ended.")
            /\ db'[sub[s].subChatId].streamId = Null
       /\ sub[s].unsubscribed => sub'[s].delivered = sub[s].delivered]_vars

\* an unsubscribed, unfinished subscription whose pending approval was swept
C13_Witness ==
  \E s \in Subs, u \in ToolUseIds :
    /\ sub[s].unsubscribed /\ ~sub[s].completed /\ sub[s].pc = "streaming"
    /\ approvals[u].s = s
    /\ approvals[u].decision.message = "Session ended."
    /\ Len(sub[s].delivered) > 0

\* C14: a subscription whose working directory is missing or is not a
\* directory does not fail its validation when the project path stored for
\* its chat exists.
C14_FallbackToProjectPath ==
  [][\A s \in Subs :
       (sub[s].pc \in {"validating", "fallback"} /\ sub'[s].pc = "done")
         => sub'[s].fsProject # "exists"]_vars

\* the step ends the validation of s with "Workspace path error"
WorkspaceFails(s) ==
  /\ sub[s].pc \in {"validating", "fallback"}
  /\ sub'[s].reason = "invalid_cwd"

\* C15: when the working directory and the project-path fallback both fail,
\* the body emits an error chunk and a finish chunk (to a subscriber that is
\* still attached), completes, and returns: it never starts the SDK query,
\* writes no message and sets no stream marker.
C15_WorkspaceFailureStopsBeforeSdk ==
  [][\A s \in Subs :
       /\ WorkspaceFails(s) =>
            /\ sub'[s].completed /\ sub'[s].pc = "done"
            /\ sub'[s].delivered =
                 IF sub[s].isObservableActive /\ ~sub[s].aborted
                   THEN sub[s].delivered \o <<ErrorChunk, FinishChunk>>
                   ELSE sub[s].delivered
            /\ sub'[s].messagesToSave = <<>> /\ sub'[s].messageCount = 0
            /\ \A id \in GateSubChatIds :
                 /\ db'[id].messages = db[id].messages
                 /\ db'[id].streamId \in {db[id].streamId, Null}
       /\ sub[s].reason = "invalid_cwd" => sub'[s] = sub[s]]_vars

\* a subscription failed its fallback and its subscriber got error, finish
C15_Witness ==
  \E s \in Subs :
    /\ sub[s].reason = "invalid_cwd" /\ sub[s].fsProject = "missing"
    /\ sub[s].delivered = <<ErrorChunk, FinishChunk>>
    /\ sub[s].completed

\* C16: when two subscriptions registered for the same sub-chat, cancel(id)
\* aborts the one registered last and no other, and leaves no entry for id.
C16_CancelAbortsLatest ==
  [][\A id \in GateSubChatIds :
       CancelStep(id) =>
         LET b == activeSessions[id] IN
         /\ sub'[b].aborted
         /\ \A t \in Subs : sub[t].subChatId = id => t <= b
         /\ \A t \in Subs \ {b} : sub'[t] = sub[t]
         /\ activeSessions'[id] = Null]_vars

\* two running subscriptions of one sub-chat, the second one cancelled
C16_Witness ==
  /\ ret = [op |-> "cancel", ok |-> TRUE]
  /\ sub[1].subChatId = sub[2].subChatId
  /\ sub[1].pc = "streaming" /\ sub[2].pc = "streaming"
  /\ ~sub[1].aborted /\ sub[2].aborted /\ ~sub[2].unsubscribed

\* C17: cancel(id) with no handle registered for id returns cancelled:false
\* and changes nothing; after a cancel(id) no handle is registered for id.
C17_CancelWithoutHandle ==
  [][/\ ret' = [op |-> "cancel", ok |-> FALSE] =>
          UNCHANGED <<db, activeSessions, sub, pendingToolApprovals, approvals>>
     /\ \A id \in GateSubChatIds : CancelStep(id) => activeSessions'[id] = Null]_vars

\* a cancel returned false while an approval was pending and its session ran
C17_Witness ==
  /\ ret = [op |-> "cancel", ok |-> FALSE]
  /\ \E u \in ToolUseIds :
       /\ pendingToolApprovals[u] # NoEntry
       /\ approvals[u].state = "waiting"
       /\ ~sub[approvals[u].s].aborted
  /\ \E s \in Subs : sub[s].aborted /\ ~sub[s].unsubscribed

\* an approval is settled: its promise is resolved
Settled(q, u) == q[u].state \in {"resolved", "returned"}

\* C19: a pending approval is decided by exactly one of respondToolApproval,
\* the timer and a sweep: the promise's resolve is called once, a settled
\* approval has no entry and no armed timer and keeps its decision, and
\* respondToolApproval for an id without entry returns ok:false and changes
\* nothing.
C19_ResolvedOnce ==
  [][/\ \A u \in ToolUseIds :
          /\ approvals'[u].resolves <= 1
          /\ (approvals'[u].state = "waiting") = (pendingToolApprovals'[u] # NoEntry)
          /\ (approvals'[u].state = "waiting") = (approvals'[u].timer = "armed")
          /\ Settled(approvals, u) =>
               /\ approvals'[u].decision = approvals[u].decision
               /\ approvals'[u].timer = approvals[u].timer
               /\ \A s \in Subs :
                    (\E i \in 1..Len(sub'[s].delivered) :
                        sub'[s].delivered[i] = AskUserQuestionTimeout(u))
                      => (\E i \in 1..Len(sub[s].delivered) :
                            sub[s].delivered[i] = AskUserQuestionTimeout(u))
     /\ ret' = [op |-> "respondToolApproval", ok |-> FALSE] =>
          UNCHANGED <<db, activeSessions, sub, pendingToolApprovals, approvals>>
     /\ ret' = [op |-> "respondToolApproval", ok |-> TRUE] =>
          \E u \in ToolUseIds :
            /\ approvals[u].state = "waiting" /\ approvals'[u].state = "resolved"
            /\ pendingToolApprovals'[u] = NoEntry]_vars

\* respondToolApproval returned false for an approval a response had decided
C19_Witness ==
  /\ ret = [op |-> "respondToolApproval", ok |-> FALSE]
  /\ \E u \in ToolUseIds :
       /\ Settled(approvals, u)
       /\ approvals[u].decision = [approved |-> FALSE, message |-> "no"]
       /\ approvals[u].timer = "cleared"

\* the gate after clearPendingApprovals(message, id) in the current state
Swept(message, id) ==
  ClearPendingApprovals(W(1, 0), message, id)

\* C20: clearPendingApprovals(reason, id) denies with reason and removes
\* exactly the entries owned by id and leaves every other entry and its
\* promise as they are; without an id ("") it does so for every entry.
C20_SweepFrame ==
  \A id \in GateSubChatIds \cup {""} :
    \A u \in ToolUseIds :
      IF pendingToolApprovals[u] # NoEntry
           /\ (id = "" \/ pendingToolApprovals[u].subChatId = id)
        THEN /\ Swept("reason", id).p[u] = NoEntry
             /\ Swept("reason", id).q[u].state = "resolved"
             /\ Swept("reason", id).q[u].decision =
                  [approved |-> FALSE, message |-> "reason"]
        ELSE /\ Swept("reason", id).p[u] = pendingToolApprovals[u]
             /\ Swept("reason", id).q[u] = approvals[u]

\* the gate holds pending approvals of two different sub-chats
C20_Witness ==
  \E u, v \in ToolUseIds :
    /\ pendingToolApprovals[u] # NoEntry /\ pendingToolApprovals[v] # NoEntry
    /\ pendingToolApprovals[u].subChatId # pendingToolApprovals[v].subChatId

\* the step is the callback of the 60 s timer of u
TimerFires(u) == approvals[u].timer = "armed" /\ approvals'[u].timer = "fired"

\* the ask-user-question chunk for u is in a chunk sequence
Asked(chunks, u) == \E i \in 1..Len(chunks) : chunks[i] = AskUserQuestion(u)

\* the ask-user-question-timeout chunks for u in a chunk sequence
Timeouts(chunks, u) ==
  Cardinality({i \in 1..Len(chunks) : chunks[i] = AskUserQuestionTimeout(u)})

\* C18: when the 60 s timer of a pending approval fires, the approval is
\* resolved once as {approved:false, message:"Timed out"}, leaves the gate,
\* and an ask-user-question-timeout chunk for its id is delivered to the
\* subscriber that was delivered the question; no other step delivers that
\* chunk.
C18_TimeoutNotifies ==
  [][\A u \in ToolUseIds :
       /\ TimerFires(u) =>
            /\ approvals'[u].state = "resolved"
            /\ approvals'[u].decision = [approved |-> FALSE, message |-> "Timed out"]
            /\ approvals'[u].resolves = 1
            /\ pendingToolApprovals'[u] = NoEntry
            /\ Asked(sub[approvals[u].s].delivered, u) =>
                 sub'[approvals[u].s].delivered =
                   Append(sub[approvals[u].s].delivered, AskUserQuestionTimeout(u))
       /\ \A s \in Subs :
            Timeouts(sub'[s].delivered, u) # Timeouts(sub[s].delivered, u)
              => TimerFires(u)]_vars

\* C21: every approval registered in the gate is eventually resolved (once)
\* and removed from the gate, and the canUseTool call that waits for it
\* returns to the SDK, when armed timers fire.
C21_ApprovalEventuallyResolved ==
  \A u \in ToolUseIds :
    /\ (pendingToolApprovals[u] # NoEntry)
         ~> (pendingToolApprovals[u] = NoEntry /\ approvals[u].resolves = 1)
    /\ (approvals[u].state = "waiting") ~> (approvals[u].state = "returned")

\* an approval nobody answered and no sweep met: the timer resolved it
C21_Witness ==
  /\ pendingToolApprovals["u1"] = NoEntry
  /\ approvals["u1"].state = "returned"
  /\ approvals["u1"].timer = "fired"
  /\ approvals["u1"].decision.message = "Timed out"

\* the session of s has ended: its teardown ran, or it was aborted and not
\* by the completion of a plan, that is by `cancel` or by the teardown
SessionEnded(s) ==
  \/ sub[s].unsubscribed
  \/ sub[s].aborted /\ ~sub[s].planCompleted

\* C22: once a session has ended the gate holds no pending approval that
\* its canUseTool registered.
C22_NoApprovalAfterEnd ==
  \A u \in ToolUseIds :
    pendingToolApprovals[u] # NoEntry => ~SessionEnded(approvals[u].s)

\* the step of s that filters the MCP servers in online mode, with servers
\* configured for the project
FilterStep(s) ==
  /\ prep[s].pc = "filter" /\ prep'[s].pc = "query"
  /\ prep[s].mcpServersForSdk.defined
  /\ ~prep[s].isUsingOllama

\* the status the map holds for a server of the project, "" if none
CachedStatus(m, path, name) == IF m[path].has THEN m[path].servers[name].status ELSE ""

\* the map holds a non-empty status table for the project
HasStatusTable(m, path) == \E name \in Servers : CachedStatus(m, path, name) # ""

\* C23: with a non-empty cached status table of the project, the servers
\* passed to the SDK are exactly the configured servers whose cached status
\* is neither "failed" nor "needs-auth", servers absent from the table
\* included.
C23_FilteredSetExact ==
  [][\A s \in Subs :
       FilterStep(s) /\ HasStatusTable(mcpServerStatusCache', prep[s].lookupPath) =>
         McpServersOption(prep'[s].mcpServersFiltered) =
           {name \in Configured(prep[s].lookupPath) :
              /\ CachedStatus(mcpServerStatusCache', prep[s].lookupPath, name) # "failed"
              /\ CachedStatus(mcpServerStatusCache', prep[s].lookupPath, name) # "needs-auth"}]_vars

\* table {A: failed, B: needs-auth, C: connected}, configured A, B, C, D:
\* the query gets exactly C and D
C23_Witness ==
  /\ prep[1].pc = "query" /\ prep[1].lookupPath = "/p1"
  /\ CachedStatus(mcpServerStatusCache, "/p1", "A") = "failed"
  /\ CachedStatus(mcpServerStatusCache, "/p1", "B") = "needs-auth"
  /\ CachedStatus(mcpServerStatusCache, "/p1", "C") = "connected"
  /\ CachedStatus(mcpServerStatusCache, "/p1", "D") = ""
  /\ McpServersOption(prep[1].mcpServersFiltered) = {"C", "D"}

\* C24: in online mode a configured server is kept from the SDK only if
\* its cached status is "failed" or "needs-auth", in every state of the
\* cache, also when no status table is cached for the project.
C24_ExcludedOnlyIfFailed ==
  [][\A s \in Subs :
       FilterStep(s) =>
         \A name \in Configured(prep[s].lookupPath) :
           name \notin McpServersOption(prep'[s].mcpServersFiltered) =>
             CachedStatus(mcpServerStatusCache', prep[s].lookupPath, name)
               \in {"failed", "needs-auth"}]_vars

\* C25: a status the SDK reported MCP_STATUS_TTL or more ago is never among
\* the statuses that filter the servers.
C25_ExpiredStatusNotUsed ==
  [][\A s \in Subs :
       FilterStep(s) /\ HasStatusTable(mcpServerStatusCache', prep[s].lookupPath) =>
         \A name \in Servers :
           CachedStatus(mcpServerStatusCache', prep[s].lookupPath, name) # "" =>
             now - mcpServerStatusCache'[prep[s].lookupPath].servers[name].observedAt
               < MCP_STATUS_TTL]_vars

\* C26: the file at MCP_CACHE_PATH is never partially written; a step that
\* changes it removes it or leaves the complete serialization of the map.
C26_AtomicSave ==
  [][/\ disk'.file.state # "partial"
     /\ disk'.file # disk.file =>
          \/ disk'.file.state = "absent"
          \/ /\ disk'.file.state = "complete"
             /\ disk'.file.entries = McpCacheData(mcpServerStatusCache', now)]_vars

\* a save stopped in its write: the partial data is at the temp path and
\* the file has the content of the save before
C26_Witness ==
  /\ disk.tmp = "partial"
  /\ disk.file.state = "complete"
  /\ disk.file.entries # McpCacheData(mcpServerStatusCache, disk.file.mtime)

\* C27: when clearClaudeCaches returns the caches are empty, the memoized
\* query is null, the load time is zero and the status file is absent; the
\* registry and the gate are unchanged.
C27_ClearCaches ==
  [][ret'.op = "clearClaudeCaches" =>
       /\ symlinksCreated' = {}
       /\ ~mcpConfigCache'
       /\ \A pr \in Projects : ~mcpServerStatusCache'[pr].has
       /\ ~cachedClaudeQuery'
       /\ diskCacheLastLoadTime' = 0
       /\ disk'.file.state = "absent"
       /\ UNCHANGED <<activeSessions, pendingToolApprovals>>]_vars

\* C28: the symlink setup of a cache key begins at most once in a process.
C28_SymlinksOncePerKey == \A k \in CacheKeys : setups[k] <= 1

\* the failure the body of s met was classified as an authentication failure
AuthFailure(s) == sub[s].errorCategory \in {"AUTH_FAILED_SDK", "AUTH_FAILURE"}

\* C29: a failure classified as an authentication failure, embedded in a
\* message or thrown by the stream, reaches the subscriber as the
\* auth-error chunk and never as an error chunk.
C29_AuthErrorChunk ==
  \A s \in Subs :
    AuthFailure(s) =>
      /\ \A i \in 1..Len(sub[s].delivered) : sub[s].delivered[i] # ErrorChunk
      /\ (\E i \in 1..Len(sub[s].delivered) : sub[s].delivered[i] = FinishChunk) =>
           \E i \in 1..Len(sub[s].delivered) : sub[s].delivered[i] = AuthErrorChunk

CountFinish(chunks) == Cardinality({i \in 1..Len(chunks) : chunks[i].type = "finish"})

\* the step in which the plan of subscription s completes
PlanStop(s) == ~sub[s].planCompleted /\ sub'[s].planCompleted

\* C31: in plan mode the output of the tracked ExitPlanMode call ends the
\* stream: one finish chunk follows the output (when the subscriber still
\* takes chunks), the session is aborted, the loop is left, the parts are
\* written with the ExitPlanMode part in state result, and afterwards no
\* chunk is delivered, no part added and no message counted. In agent mode
\* the plan never completes and a message with the output of ExitPlanMode
\* leaves the stream running.
C31_PlanCompletion ==
  [][\A s \in Subs :
       /\ PlanStop(s) =>
            LET r == sub'[s]
                d == r.delivered
                m == db'[r.subChatId].messages
            IN /\ r.mode = "plan"
               /\ r.aborted
               /\ r.pc # "streaming"
               /\ CountFinish(d) <= CountFinish(sub[s].delivered) + 1
               /\ ~r.nextThrew =>
                    /\ Len(d) >= 2
                    /\ d[Len(d)] = FinishChunk
                    /\ d[Len(d) - 1] = ToolOutput(r.exitPlanModeToolCallId)
                    /\ CountFinish(d) = CountFinish(sub[s].delivered) + 1
               /\ Len(m) > 0
               /\ m[Len(m)] = AssistantMessage(s, r)
               /\ \E i \in 1..Len(r.parts) :
                    r.parts[i] = Part("tool", <<>>, r.exitPlanModeToolCallId,
                                      "ExitPlanMode", "result")
       /\ sub[s].planCompleted =>
            /\ sub'[s].delivered = sub[s].delivered
            /\ sub'[s].parts = sub[s].parts
            /\ sub'[s].messageCount = sub[s].messageCount
            /\ sub'[s].planCompleted
       /\ ( /\ sub[s].mode = "agent"
            /\ sub[s].pc = "streaming"
            /\ ~sub[s].aborted
            /\ sub'[s].transformed = sub[s].transformed \o <<ToolOutput("t1"), TextDelta(<<"a">>)>>
            /\ ~sub'[s].nextThrew )
          => /\ sub'[s].pc = "streaming"
             /\ ~sub'[s].planCompleted
             /\ sub'[s].delivered = sub[s].delivered \o <<ToolOutput("t1"), TextDelta(<<"a">>)>>]_vars

\* a plan completed: the subscriber's last chunk is the finish chunk and the
\* body ended with reason plan_complete
C31_Witness ==
  \E s \in Subs :
    /\ sub[s].planCompleted
    /\ sub[s].reason = "plan_complete"
    /\ Len(sub[s].delivered) >= 2
    /\ sub[s].delivered[Len(sub[s].delivered)] = FinishChunk
    /\ sub[s].pc = "done"

\* C32: in every closure no two tool parts have the same toolCallId, and a
\* tool-output-available chunk adds no part: it leaves every part as it is
\* except the state of the part it addresses, which becomes result.
C32_UniqueToolParts ==
  \A s \in Subs :
    LET parts == sub[s].parts IN
      /\ \A i, j \in 1..Len(parts) :
           (i < j /\ parts[i].kind = "tool" /\ parts[j].kind = "tool")
             => parts[i].toolCallId # parts[j].toolCallId
      /\ \A id \in {"t1", "t2"} :
           LET after == Accumulate([sub[s] EXCEPT !.mode = "agent"], ToolOutput(id)).parts
           IN /\ Len(after) = Len(parts)
              /\ \A i \in 1..Len(parts) :
                   \/ after[i] = parts[i]
                   \/ /\ parts[i].kind = "tool" /\ parts[i].toolCallId = id
                      /\ after[i] = [parts[i] EXCEPT !.state = "result"]

\* C33: a text-end chunk flushes the buffer of every closure: the text
\* appended since the last flush becomes one text part at the end of the
\* parts and the buffer is empty afterwards.
C33_TextEndFlushes ==
  \A s \in Subs :
    LET r == Accumulate(sub[s], TextEnd) IN
      /\ r.currentText = <<>>
      /\ sub[s].currentText # <<>> =>
           r.parts = Append(sub[s].parts, TextPart(sub[s].currentText))
      /\ sub[s].currentText = <<>> => r.parts = sub[s].parts

\* C34: in agent mode, when the subscriber has received every chunk of the
\* script (text deltas o, k and ., text-end, the input and the output of
\* Glob call t, text delta done, text-end, finish) and the body has ended,
\* it has received one finish chunk, and the last message written to the
\* row is the assistant message with exactly the parts text "ok.", tool
\* Glob in state result, text "done".
C34_GlobReply ==
  ( /\ sub[1].mode = "agent"
    /\ sub[1].pc = "done"
    /\ FromSdk(sub[1].delivered) = GlobChunks )
  => /\ CountFinish(sub[1].delivered) = 1
     /\ LET m == db[sub[1].subChatId].messages IN
          /\ Len(m) > 0
          /\ m[Len(m)].role = "assistant"
          /\ m[Len(m)].parts = << TextPart(<<"o", "k", ".">>),
                                  Part("tool", <<>>, "t", "Glob", "result"),
                                  TextPart(<<"d", "o", "n", "e">>) >>

\* the reply was delivered whole in agent mode and the body has ended
C34_Witness ==
  /\ sub[1].mode = "agent"
  /\ sub[1].pc = "done"
  /\ FromSdk(sub[1].delivered) = GlobChunks
  /\ sub[1].completed
  /\ sub[1].saves = 1

\* the body of subscription s reaches its finally block in the step
FinallyStep(s) == sub[s].pc # "done" /\ sub'[s].pc = "done"

\* C39: the end of a subscription, by the finally block of its body or by
\* its teardown, leaves the cancel handle a newer subscription registered
\* for the same sub-chat id in the registry: isActive(id) stays true and
\* cancel(id) still finds the controller of the running session.
C39_OwnHandleOnly ==
  [][\A s \in Subs :
       LET id == sub[s].subChatId IN
         ( /\ FinallyStep(s) \/ UnsubscribeStep(s)
           /\ activeSessions[id] \notin {Null, s} )
         => activeSessions'[id] = activeSessions[id]]_vars

\* the names of the tool mentions of a prompt, as the scan of the prompt
\* finds them
ToolMatchNames(prompt) ==
  LET matches == MentionMatches(prompt, 1)
  IN {matches[k].name : k \in {l \in 1..Len(matches) : matches[l].type = "tool"}}

\* a name of characters of [A-Za-z0-9_-] only
ValidName(name) == Len(name) > 0 /\ \A k \in 1..Len(name) : name[k] = "x"

\* no mention of the prompt holds the prefix of a mention in its name
NoNesting(prompt) ==
  LET matches == MentionMatches(prompt, 1)
  IN \A k \in 1..Len(matches) :
       \A l \in 1..Len(matches[k].name), type \in MentionTypes :
         matches[k].name[l] # Opener[type]

RECURSIVE WithoutMentions(_, _)
\* the prompt from position i on with every agent, skill and tool mention
\* of the scan taken out
WithoutMentions(text, i) ==
  IF i > Len(text) THEN <<>>
  ELSE LET j == TokenEnd(text, i, MentionTypes) IN
    IF j = 0 THEN <<text[i]>> \o WithoutMentions(text, i + 1)
    ELSE (IF text[i] \in {Opener["file"], Opener["folder"]}
            THEN SubSeq(text, i, j) ELSE <<>>) \o WithoutMentions(text, j + 1)

ClientStep(op, a) == ret'.op = op /\ ret'.a = a

\* C35 as stated: once the stream of an adapter is errored, no later
\* onComplete or abort calls controller.close() on it.
C35_NoCloseCallAfterError ==
  [][\A a \in Adapters :
       ( /\ client.adapter[a].state = "errored"
         /\ ClientStep("onComplete", a) \/ ClientStep("abort", a) )
       => ~ret'.closeCalled]_vars

\* C35, amended: once the stream of an adapter is errored it stays errored
\* and is marked errored; a later onComplete does not call
\* controller.close(); the abort listener does call it, the call throws and
\* the exception does not escape the listener.
C35_ErroredNeverClosed ==
  [][\A a \in Adapters :
       client.adapter[a].state = "errored" =>
         /\ client.adapter[a].isStreamErrored
         /\ client'.adapter[a].state = "errored"
         /\ ClientStep("onComplete", a) => ~ret'.closeCalled /\ ~ret'.escaped
         /\ ClientStep("abort", a) => ret'.closeCalled /\ ~ret'.escaped]_vars

\* the subscription of an errored stream completed and its abort signal fired
C35_Witness ==
  \E a \in Adapters :
    /\ client.adapter[a].state = "errored"
    /\ client.adapter[a].aborted
    /\ Len(client.adapter[a].enqueued) > 0
    /\ ret.op = "onComplete" /\ ret.a = a

\* C36: once an adapter has marked its stream closed, onData drops every
\* chunk that is not an error chunk without calling enqueue, passes an error
\* chunk to enqueue, and lets no exception escape.
C36_ClosedStreamDrops ==
  [][\A a \in Adapters :
       (client.adapter[a].isStreamClosed /\ ClientStep("onData", a)) =>
         /\ ret'.chunk.type # "error" =>
              /\ ~ret'.enqueueCalled
              /\ client'.adapter[a].enqueued = client.adapter[a].enqueued
         /\ ret'.chunk.type = "error" => ret'.enqueueCalled
         /\ ~ret'.escaped]_vars

\* an error chunk and then a text chunk reached a stream that onComplete had
\* closed with a chunk enqueued
C36_Witness ==
  \E a \in Adapters :
    /\ client.adapter[a].isStreamClosed
    /\ client.adapter[a].state \in {"closing", "closed"}
    /\ ~client.adapter[a].aborted
    /\ Len(client.adapter[a].enqueued) = 1
    /\ ret.op = "onData" /\ ret.a = a /\ ret.chunk.type = "text-delta"
    /\ client.events = MaxEvents

\* C37: the abort listener marks the stream closed, unsubscribes, sends one
\* cancel request for the sub-chat of its adapter and for no other, and
\* closes the stream if it is readable; on a stream that is closed or
\* errored its close throws and nothing escapes; after the abort no chunk
\* is enqueued.
C37_AbortClosesStream ==
  [][\A a \in Adapters :
       /\ ClientStep("abort", a) =>
            /\ client'.adapter[a].isStreamClosed
            /\ client'.adapter[a].unsubscribed
            /\ client'.cancelled =
                 [client.cancelled EXCEPT ![SubChatOf(a)] = @ + 1]
            /\ ret'.closeCalled
            /\ client.adapter[a].state = "readable" =>
                 client'.adapter[a].state \in {"closing", "closed"}
            /\ client.adapter[a].state # "readable" =>
                 client'.adapter[a].state = client.adapter[a].state
            /\ ~ret'.escaped
       /\ client.adapter[a].aborted =>
            /\ client'.adapter[a].enqueued = client.adapter[a].enqueued
            /\ client'.cancelled[SubChatOf(a)] = 1]_vars

\* the abort signal fired on an errored stream and an error chunk came after
C37_Witness ==
  \E a \in Adapters :
    /\ client.adapter[a].aborted
    /\ client.adapter[a].state = "errored"
    /\ client.cancelled[SubChatOf(a)] = 1
    /\ ret.op = "onData" /\ ret.a = a /\ ret.chunk.type = "error"

\* C40: an ask-user-question-timeout chunk removes the pending question of
\* the adapter's sub-chat when the toolUseIds are equal and leaves it as it
\* is when they differ; no chunk changes the pending question of a sub-chat
\* other than the adapter's.
C40_PendingQuestionFrame ==
  [][\A a \in Adapters :
       ClientStep("onData", a) =>
         LET id == SubChatOf(a)
             before == client.pendingUserQuestions
             after == client'.pendingUserQuestions
         IN /\ \A other \in GateSubChatIds \ {id} : after[other] = before[other]
            /\ ret'.chunk.type = "ask-user-question-timeout" =>
                 after[id] = IF before[id] = ret'.chunk.toolCallId
                               THEN NoQuestion ELSE before[id]]_vars

\* a stale timeout (u1) reached adapter 1 while its pending question was the
\* newer u2 and the other sub-chat had a question of its own
C40_Witness ==
  /\ ret.op = "onData" /\ ret.a = 1
  /\ ret.chunk = AskUserQuestionTimeout("u1")
  /\ client.pendingUserQuestions["c1"] = "u2"
  /\ client.pendingUserQuestions["c2"] = "u1"

====
